---- MODULE Spec2Model ----
(***************************************************************************)
(* Bird image analysis: the browser clients that upload artifacts and      *)
(* discover result tables by listing the object store, and the notebook    *)
(* lifecycle script that starts the enrichment runner.                     *)
(*                                                                         *)
(* Strings the code inspects (object keys, CSV text) are kept in the state *)
(* as strings and looked up as sequences of one-character strings by       *)
(* KeyChars / BodyChars, so that includes / endsWith / split are computed. *)
(***************************************************************************)
EXTENDS Integers, Sequences, FiniteSets, TLC

VARIABLES
    component,      \* the part of the system this behaviour follows
    store,          \* object store: key -> [lastModified, body]
    now,            \* wall clock: at the latest put (object timestamps), and
                    \* as the executions of the upload pipeline read it
    puts,           \* number of puts completed
    publishing,     \* key of the put in flight ("" when none)
    mounted,        \* the component's mount effect has run
    repeated,       \* history: a discovery call completed that listed the same
                    \* store contents as the call before it (of the checker:
                    \* the latest report did)
    \* EnhancedCSVViewer
    csvFiles, loading, error, loads, csvFresh,
    \* BirdProcessingApp
    enhancedCSVs, isProcessing, polls, timers, appFresh,
    \* ResultsChecker
    isChecking, lastCheck, checks, intervalOn, closureIsChecking,
    reported, reportCount, reportInfo,
    \* S3FileUploader
    selectedFiles, uploadProgress, uploadedFiles,
    uploadCalls,    \* the uploadToS3 calls made: [batch, file, key, pc]
    batches,        \* the handleUpload executions: [files, pc]
    uploads,        \* objects of the uploads/ namespace: key -> File stored
    msClock,        \* Date at the latest uploadToS3 call, in milliseconds
    \* notebook instance and its lifecycle script
    lifecycleScript, sagemakerModelName, bucketScript, localScript, rootScript,
    configFile, configRun, runPc, startups, fetchOk, ranScript, lifecycleLog,
    subshellExit, exitStatus,
    shells,         \* the shells executing the lifecycle script, the one at
                    \* work last: [at, end, cwd, status]
    \* the upload pipeline (function birdProcessor)
    runs,           \* its executions: [artifact, pc, items, done, table]
    tables,         \* result tables published: key -> table
    nextTable,      \* number of the next primary table put before the runner
    \* the enrichment runner (the processing script of the notebook instance)
    enr,            \* [pc, todo, cur, outcomes, atStart, published]
    enrLog,         \* classification results behind each enhanced table
    enrStarts,      \* startups of the runner so far
    \* a primary table on its way from the aggregator to the client
    codec           \* [pc, rows, text, report]

storeVars   == <<store, now, puts, publishing>>
viewerVars  == <<csvFiles, loading, error, loads, csvFresh>>
appVars     == <<enhancedCSVs, isProcessing, polls, timers, appFresh>>
checkerVars == <<isChecking, lastCheck, checks, intervalOn, closureIsChecking,
                 reported, reportCount, reportInfo>>
uploaderVars == <<selectedFiles, uploadProgress, uploadedFiles, uploadCalls, batches,
                  uploads, msClock>>
runnerVars  == <<lifecycleScript, sagemakerModelName, bucketScript, localScript,
                 rootScript, configFile, configRun, runPc, shells, startups, fetchOk,
                 ranScript, lifecycleLog, subshellExit, exitStatus>>
pipelineVars == <<runs, tables, nextTable>>
enrichVars == <<enr, enrLog, enrStarts>>
codecVars == <<codec>>
backendVars == <<pipelineVars, enrichVars, codecVars>>
vars == <<component, mounted, repeated, storeVars, viewerVars, appVars, checkerVars,
          uploaderVars, runnerVars, backendVars>>

----------------------------------------------------------------------------
\* Bounds of the model.
MaxTime  == 2      \* clock values 1..MaxTime
MaxPuts  == 2      \* puts to the store in one behaviour
MaxLoads == 2      \* overlapping executions of one async handler
MaxMs       == 2   \* millisecond clock values 0..MaxMs
MaxSubmits  == 2   \* handleUpload executions in one behaviour
MaxStartups == 2   \* starts of the notebook instance in one behaviour
MaxBatches  == 2   \* executions of the upload pipeline in one behaviour
MaxRows     == 2   \* data rows of a table that is serialized and parsed

----------------------------------------------------------------------------
\* Character sequences of the string literals in the code.
ResultsPrefix  == <<"p","u","b","l","i","c","/","r","e","s","u","l","t","s","/">>
EnhancedMarker == <<"e","n","h","a","n","c","e","d","_","b","i","r","d","_","r","e","s","u","l","t","s">>
CsvSuffix      == <<".","c","s","v">>
BirdResults    == <<"b","i","r","d","-","r","e","s","u","l","t","s","-">>

\* The keys of the model, in the store's listing order (UTF-8 binary order).
KeyOrder ==
    << "public/results/bird-results-1.csv",
       "public/results/bird-results-2.csv",
       "public/results/bird-results-3.csv",
       "public/results/bird-results-4.csv",
       "public/results/bird-results-5.csv",
       "public/results/bird-results-6.csv",
       "public/results/enhanced_bird_results_1.csv",
       "public/results/enhanced_bird_results_2.csv",
       "public/results/enhanced_bird_results_2.csv.tmp" >>

\* The primary tables of earlier batches, and the keys that are published
\* while the clients look on.
BacklogKeys == SubSeq(KeyOrder, 1, 6)
ResultKeys == {KeyOrder[i] : i \in {1} \cup 7..Len(KeyOrder)}

KeyChars(k) ==
    CASE k = "public/results/bird-results-1.csv" ->
            ResultsPrefix \o BirdResults \o <<"1">> \o CsvSuffix
      [] k = "public/results/bird-results-2.csv" ->
            ResultsPrefix \o BirdResults \o <<"2">> \o CsvSuffix
      [] k = "public/results/bird-results-3.csv" ->
            ResultsPrefix \o BirdResults \o <<"3">> \o CsvSuffix
      [] k = "public/results/bird-results-4.csv" ->
            ResultsPrefix \o BirdResults \o <<"4">> \o CsvSuffix
      [] k = "public/results/bird-results-5.csv" ->
            ResultsPrefix \o BirdResults \o <<"5">> \o CsvSuffix
      [] k = "public/results/bird-results-6.csv" ->
            ResultsPrefix \o BirdResults \o <<"6">> \o CsvSuffix
      [] k = "public/results/enhanced_bird_results_1.csv" ->
            ResultsPrefix \o EnhancedMarker \o <<"_","1">> \o CsvSuffix
      [] k = "public/results/enhanced_bird_results_2.csv" ->
            ResultsPrefix \o EnhancedMarker \o <<"_","2">> \o CsvSuffix
      [] k = "public/results/enhanced_bird_results_2.csv.tmp" ->
            ResultsPrefix \o EnhancedMarker \o <<"_","2">> \o CsvSuffix \o <<".","t","m","p">>

Range(seq) == {seq[i] : i \in 1..Len(seq)}

\* String.prototype.startsWith / endsWith / includes.
StartsWith(s, p) == Len(p) <= Len(s) /\ SubSeq(s, 1, Len(p)) = p
EndsWith(s, p)   == Len(p) <= Len(s) /\ SubSeq(s, Len(s) - Len(p) + 1, Len(s)) = p
Includes(s, p)   == \E i \in 1..(Len(s) - Len(p) + 1) : SubSeq(s, i, i + Len(p) - 1) = p

----------------------------------------------------------------------------
\* CSV texts that are published.
HeaderOnlyCsv == "itemName,count\n"
OneRowCsv     == "itemName,count\na.jpg,2\n"
EnhancedCsv   == "itemName,count,category\na.jpg,2,sparrow\n"

HeaderChars == <<"i","t","e","m","N","a","m","e",",","c","o","u","n","t">>

BodyChars(b) ==
    CASE b = HeaderOnlyCsv -> HeaderChars \o <<"\n">>
      [] b = OneRowCsv     -> HeaderChars \o <<"\n">> \o <<"a",".","j","p","g",",","2","\n">>
      [] b = EnhancedCsv   -> HeaderChars \o <<",","c","a","t","e","g","o","r","y","\n">>
                              \o <<"a",".","j","p","g",",","2",",","s","p","a","r","r","o","w","\n">>

\* What the publishing stages write under each key.
BodiesOf(k) ==
    IF Includes(KeyChars(k), EnhancedMarker) THEN {EnhancedCsv}
    ELSE {HeaderOnlyCsv, OneRowCsv}

----------------------------------------------------------------------------
\* The object store.
NoKey == ""

Without(st, ks) == [x \in DOMAIN st \ ks |-> st[x]]

Put(st, k, obj) == [x \in DOMAIN st \cup {k} |-> IF x = k THEN obj ELSE st[x]]

\* list({path|prefix}): the stored objects under the prefix, in key order.
RECURSIVE ListFrom(_, _, _)
ListFrom(st, prefix, i) ==
    IF i > Len(KeyOrder) THEN <<>>
    ELSE LET k == KeyOrder[i]
         IN  (IF k \in DOMAIN st /\ StartsWith(KeyChars(k), prefix)
              THEN <<[path |-> k, lastModified |-> st[k].lastModified]>>
              ELSE <<>>) \o ListFrom(st, prefix, i + 1)

ListItems(st, prefix) == ListFrom(st, prefix, 1)

\* Array.prototype.sort with (a, b) => b.lastModified - a.lastModified:
\* a stable sort, newest first.
RECURSIVE SortNewestFirst(_)
SortNewestFirst(s) ==
    IF s = <<>> THEN <<>>
    ELSE LET r == SortNewestFirst(SubSeq(s, 1, Len(s) - 1))
             x == s[Len(s)]
             n == Cardinality({i \in 1..Len(r) : r[i].lastModified >= x.lastModified})
         IN  SubSeq(r, 1, n) \o <<x>> \o SubSeq(r, n + 1, Len(r))


----------------------------------------------------------------------------
\* Publishing stages (processing function, enrichment runner): an object
\* becomes visible to list only when its put completes; a put to an existing
\* key replaces the object.
NoPublishSince(slots) == [i \in DOMAIN slots |-> [slots[i] EXCEPT !.fresh = FALSE]]

PublishBegin(k) ==
    /\ publishing = NoKey
    /\ puts < MaxPuts
    /\ publishing' = k
    /\ UNCHANGED <<component, uploaderVars, runnerVars, backendVars, mounted, repeated, store, now, puts, viewerVars, appVars, checkerVars>>

\* The put completes `dt` clock units after the latest one.
PublishEnd(b, dt) ==
    /\ publishing # NoKey
    /\ b \in BodiesOf(publishing)
    /\ now + dt <= MaxTime
    /\ now' = now + dt
    /\ puts' = puts + 1
    /\ store' = Put(store, publishing, [lastModified |-> now', body |-> b])
    /\ publishing' = NoKey
    /\ loads' = NoPublishSince(loads)
    /\ polls' = NoPublishSince(polls)
    /\ checks' = NoPublishSince(checks)
    /\ csvFresh' = FALSE
    /\ appFresh' = FALSE
    /\ reportInfo' = [reportInfo EXCEPT !.fresh = FALSE]
    /\ UNCHANGED <<component, uploaderVars, runnerVars, backendVars, mounted, repeated, csvFiles, loading, error,
                   enhancedCSVs, isProcessing, timers,
                   isChecking, lastCheck, intervalOn, closureIsChecking,
                   reported, reportCount>>

----------------------------------------------------------------------------
\* EnhancedCSVViewer
NULL     == "null"
LoadError == "Failed to load enhanced CSV files. Make sure some processing has completed."
NoUrl    == <<>>
UrlOf(path) == <<"url", path>>

IdleSlot == [pc |-> "idle", items |-> <<>>, fresh |-> FALSE, errorSet |-> FALSE]
Idle(slots) == {i \in DOMAIN slots : slots[i].pc = "idle"}
FirstIdle(slots) == CHOOSE i \in Idle(slots) : \A j \in Idle(slots) : i <= j

\* Mutant: the filter without its endsWith('.csv') conjunct.
isEnhancedCSV_anySuffix(item) == Includes(KeyChars(item.path), EnhancedMarker)

\* item.path?.includes('enhanced_bird_results') && item.path?.endsWith('.csv')
isEnhancedCSV(item) ==
    /\ Includes(KeyChars(item.path), EnhancedMarker)
    /\ EndsWith(KeyChars(item.path), CsvSuffix)

\* Mutant: an entry whose getUrl threw is dropped.
csvsWithUrls_dropFailed(enhanced, failed) ==
    LET kept == SelectSeq(enhanced, LAMBDA e : e.path \notin failed)
    IN  [i \in 1..Len(kept) |->
            [path |-> kept[i].path,
             lastModified |-> kept[i].lastModified,
             downloadUrl |-> UrlOf(kept[i].path)]]

\* The Promise.all over getUrl: an entry whose getUrl threw is returned as it is.
csvsWithUrls(enhanced, failed) ==
    [i \in 1..Len(enhanced) |->
        [path |-> enhanced[i].path,
         lastModified |-> enhanced[i].lastModified,
         downloadUrl |-> IF enhanced[i].path \in failed THEN NoUrl
                         ELSE UrlOf(enhanced[i].path)]]

PathsOf(items) == {items[i].path : i \in 1..Len(items)}

\* loadCSVFiles up to its first await: setLoading(true); setError(null); list(...)
LoadCSVFilesStart ==
    /\ Idle(loads) # {}
    /\ loading' = TRUE
    /\ error' = NULL
    /\ loads' = [loads EXCEPT ![FirstIdle(loads)] = [IdleSlot EXCEPT !.pc = "list"]]
    /\ UNCHANGED <<csvFiles, csvFresh>>

\* useEffect on mount: loadCSVFiles() and setInterval(loadCSVFiles, 30000)
ViewerMount ==
    /\ component = "viewer" /\ ~mounted
    /\ mounted' = TRUE
    /\ LoadCSVFilesStart
    /\ UNCHANGED <<component, uploaderVars, runnerVars, backendVars, repeated, storeVars, appVars, checkerVars>>

\* Mutant: no interval is set, the viewer lists on mount only.
ViewerInterval_notSet == FALSE /\ UNCHANGED vars

\* The 30 s interval fires, whether or not an earlier load has finished.
ViewerInterval ==
    /\ component = "viewer" /\ mounted
    /\ LoadCSVFilesStart
    /\ UNCHANGED <<component, uploaderVars, runnerVars, backendVars, mounted, repeated, storeVars, appVars, checkerVars>>

\* await list(...) resolves; the items are filtered.
LoadCSVFilesListed(l) ==
    /\ loads[l].pc = "list"
    /\ loads' = [loads EXCEPT ![l] =
                    [@ EXCEPT !.pc = "urls",
                              !.items = SelectSeq(ListItems(store, ResultsPrefix), isEnhancedCSV),
                              !.fresh = TRUE]]
    /\ UNCHANGED <<component, uploaderVars, runnerVars, backendVars, mounted, repeated, storeVars, csvFiles, loading, error, csvFresh,
                   appVars, checkerVars>>

\* Mutant: the catch also empties the list of files.
LoadCSVFilesListFailed_clearFiles(l) ==
    /\ loads[l].pc = "list"
    /\ error' = LoadError
    /\ loading' = FALSE
    /\ csvFiles' = <<>>
    /\ loads' = [i \in DOMAIN loads |->
                    IF i = l THEN IdleSlot
                    ELSE IF loads[i].pc = "idle" THEN loads[i]
                    ELSE [loads[i] EXCEPT !.errorSet = TRUE]]
    /\ UNCHANGED <<component, uploaderVars, runnerVars, backendVars, mounted, repeated, storeVars, csvFresh, appVars, checkerVars>>

\* await list(...) rejects: catch { setError(...) } finally { setLoading(false) }
LoadCSVFilesListFailed(l) ==
    /\ loads[l].pc = "list"
    /\ error' = LoadError
    /\ loading' = FALSE
    /\ loads' = [i \in DOMAIN loads |->
                    IF i = l THEN IdleSlot
                    ELSE IF loads[i].pc = "idle" THEN loads[i]
                    ELSE [loads[i] EXCEPT !.errorSet = TRUE]]
    /\ UNCHANGED <<component, uploaderVars, runnerVars, backendVars, mounted, repeated, storeVars, csvFiles, csvFresh, appVars, checkerVars>>

\* Mutant: the load removes from the store the tables it has listed.
LoadCSVFilesDone_consume(l, failed) ==
    /\ loads[l].pc = "urls"
    /\ failed \subseteq PathsOf(loads[l].items)
    /\ loads[l].items # <<>>
    /\ store' = Without(store, PathsOf(loads[l].items))
    /\ csvFiles' = SortNewestFirst(csvsWithUrls(loads[l].items, failed))
    /\ csvFresh' = loads[l].fresh
    /\ repeated' = (repeated \/ (loads[l].fresh /\ csvFresh))
    /\ loading' = FALSE
    /\ loads' = [loads EXCEPT ![l] = IdleSlot]
    /\ UNCHANGED <<component, uploaderVars, runnerVars, backendVars, mounted, now, puts, publishing, error, appVars, checkerVars>>

\* The getUrl calls settle (those of `failed` rejected); sort; setCsvFiles;
\* finally { setLoading(false) }
LoadCSVFilesDone(l, failed) ==
    /\ loads[l].pc = "urls"
    /\ failed \subseteq PathsOf(loads[l].items)
    /\ csvFiles' = SortNewestFirst(csvsWithUrls(loads[l].items, failed))
    /\ csvFresh' = loads[l].fresh
    /\ repeated' = (repeated \/ (loads[l].fresh /\ csvFresh))
    /\ loading' = FALSE
    /\ loads' = [loads EXCEPT ![l] = IdleSlot]
    /\ UNCHANGED <<component, uploaderVars, runnerVars, backendVars, mounted, storeVars, error, appVars, checkerVars>>

----------------------------------------------------------------------------
\* BirdProcessingApp
\* item.key?.includes('enhanced_bird_results') && item.key?.endsWith('.csv')
isEnhancedKey(item) ==
    /\ Includes(KeyChars(item.path), EnhancedMarker)
    /\ EndsWith(KeyChars(item.path), CsvSuffix)

\* file.key?.split('/').pop() || 'unknown'
RECURSIVE LastSegment(_)
LastSegment(s) ==
    IF s = <<>> \/ s[Len(s)] = "/" THEN <<>>
    ELSE LastSegment(SubSeq(s, 1, Len(s) - 1)) \o <<s[Len(s)]>>

filenameOf(key) ==
    IF LastSegment(KeyChars(key)) = <<>> THEN <<"u","n","k","n","o","w","n">>
    ELSE LastSegment(KeyChars(key))

csvData(files) ==
    [i \in 1..Len(files) |->
        [key |-> files[i].path,
         lastModified |-> files[i].lastModified,
         downloadUrl |-> UrlOf(files[i].path),
         filename |-> filenameOf(files[i].path)]]

\* A pollForResults execution; scheduled: it was started by the timer of
\* handleFileUpload (and not by the mount effect).
PollIdle == [pc |-> "idle", items |-> <<>>, fresh |-> FALSE, errorSet |-> FALSE,
             scheduled |-> FALSE]

\* pollForResults up to its first await: list(...)
PollForResultsStart(scheduled) ==
    /\ Idle(polls) # {}
    /\ polls' = [polls EXCEPT ![FirstIdle(polls)] =
                    [PollIdle EXCEPT !.pc = "list", !.scheduled = scheduled]]

\* useEffect on mount: pollForResults()
AppMount ==
    /\ component = "app" /\ ~mounted
    /\ mounted' = TRUE
    /\ PollForResultsStart(FALSE)
    /\ UNCHANGED <<component, uploaderVars, runnerVars, backendVars, repeated, storeVars, viewerVars, checkerVars,
                   enhancedCSVs, isProcessing, timers, appFresh>>

\* handleFileUpload: setIsProcessing(true); setTimeout(pollForResults, 5000)
handleFileUpload ==
    /\ component = "app" /\ mounted
    /\ timers + Cardinality(DOMAIN polls \ Idle(polls)) < MaxLoads
    /\ isProcessing' = TRUE
    /\ timers' = timers + 1
    /\ UNCHANGED <<component, uploaderVars, runnerVars, backendVars, mounted, repeated, storeVars, viewerVars, checkerVars,
                   enhancedCSVs, polls, appFresh>>

\* A 5 s timer of handleFileUpload fires.
AppTimeout ==
    /\ component = "app" /\ timers > 0
    /\ timers' = timers - 1
    /\ PollForResultsStart(TRUE)
    /\ UNCHANGED <<component, uploaderVars, runnerVars, backendVars, mounted, repeated, storeVars, viewerVars, checkerVars,
                   enhancedCSVs, isProcessing, appFresh>>

PollForResultsListed(p) ==
    /\ polls[p].pc = "list"
    /\ polls' = [polls EXCEPT ![p] =
                    [@ EXCEPT !.pc = "urls",
                              !.items = SelectSeq(ListItems(store, ResultsPrefix), isEnhancedKey),
                              !.fresh = TRUE]]
    /\ UNCHANGED <<component, uploaderVars, runnerVars, backendVars, mounted, repeated, storeVars, viewerVars, checkerVars,
                   enhancedCSVs, isProcessing, timers, appFresh>>

\* Mutant: a rejected getUrl leaves its entry without a download URL.
PollForResultsFailed_partial(p) ==
    /\ polls[p].pc = "urls" /\ polls[p].items # <<>>
    /\ enhancedCSVs' = SortNewestFirst(
                          [i \in 1..Len(polls[p].items) |->
                              [csvData(polls[p].items)[i] EXCEPT !.downloadUrl = NoUrl]])
    /\ isProcessing' = FALSE
    /\ polls' = [polls EXCEPT ![p] = PollIdle]
    /\ UNCHANGED <<component, uploaderVars, runnerVars, backendVars, mounted, repeated, storeVars, viewerVars, checkerVars,
                   timers, appFresh>>

\* list(...) rejects, or one getUrl of the Promise.all rejects:
\* catch { setIsProcessing(false) }
PollForResultsFailed(p) ==
    /\ \/ polls[p].pc = "list"
       \/ polls[p].pc = "urls" /\ polls[p].items # <<>>
    /\ isProcessing' = FALSE
    /\ polls' = [polls EXCEPT ![p] = PollIdle]
    /\ UNCHANGED <<component, uploaderVars, runnerVars, backendVars, mounted, repeated, storeVars, viewerVars, checkerVars,
                   enhancedCSVs, timers, appFresh>>

\* Every getUrl resolved: setEnhancedCSVs(csvData.sort(...)); setIsProcessing(false)
PollForResultsDone(p) ==
    /\ polls[p].pc = "urls"
    /\ enhancedCSVs' = SortNewestFirst(csvData(polls[p].items))
    /\ appFresh' = polls[p].fresh
    /\ repeated' = (repeated \/ (polls[p].fresh /\ appFresh))
    /\ isProcessing' = FALSE
    /\ polls' = [polls EXCEPT ![p] = PollIdle]
    /\ UNCHANGED <<component, uploaderVars, runnerVars, backendVars, mounted, storeVars, viewerVars, checkerVars, timers>>


----------------------------------------------------------------------------
\* ResultsChecker
\* String.prototype.split(sep) for a one-character separator: the parts of
\* the characters lo..hi of s. The range is halved, the last part of the
\* first half going on in the first part of the second, so that the depth
\* of the evaluation grows with the logarithm of the length only.
RECURSIVE SplitRange(_, _, _, _)
SplitRange(s, sep, lo, hi) ==
    IF lo > hi THEN << <<>> >>
    ELSE IF lo = hi THEN (IF s[lo] = sep THEN << <<>>, <<>> >> ELSE << <<s[lo]>> >>)
    ELSE LET first == SplitRange(s, sep, lo, (lo + hi) \div 2)
             second == SplitRange(s, sep, (lo + hi) \div 2 + 1, hi)
         IN  SubSeq(first, 1, Len(first) - 1)
               \o << first[Len(first)] \o Head(second) >>
               \o Tail(second)
Split(s, sep) == SplitRange(s, sep, 1, Len(s))

\* The line terminators and the white space of the language, which trim()
\* strips and parseInt skips. A character that has no escape in a string of
\* the model is named by its code point.
LineTerminators == {"\n", "\r", "U+2028", "U+2029"}
Whitespace ==
    LineTerminators
      \cup {" ", "\t", "\f", "U+000B", "U+00A0", "U+FEFF", "U+1680", "U+2000", "U+2001",
             "U+2002", "U+2003", "U+2004", "U+2005", "U+2006", "U+2007", "U+2008",
             "U+2009", "U+200A", "U+202F", "U+205F", "U+3000"}

\* line.trim() is the empty string (falsy)
IsBlank(line) == \A i \in 1..Len(line) : line[i] \in Whitespace
NonBlank(line) == ~IsBlank(line)

Digits == <<"0", "1", "2", "3", "4", "5", "6", "7", "8", "9">>
HexLetters == <<"a", "b", "c", "d", "e", "f">>
HexCapitals == <<"A", "B", "C", "D", "E", "F">>

\* The value of a character as a digit, -1 when it is none.
DigitValue(ch) ==
    IF \E d \in 1..10 : Digits[d] = ch THEN (CHOOSE d \in 1..10 : Digits[d] = ch) - 1
    ELSE IF \E d \in 1..6 : HexLetters[d] = ch
         THEN (CHOOSE d \in 1..6 : HexLetters[d] = ch) + 9
    ELSE IF \E d \in 1..6 : HexCapitals[d] = ch
         THEN (CHOOSE d \in 1..6 : HexCapitals[d] = ch) + 9
    ELSE -1
IsDigit(ch, radix) == DigitValue(ch) \in 0..(radix - 1)

\* Numbers. A number of the language is a double. The ones this code comes
\* by are integers, the two infinities and NaN: a record of its kind, its
\* sign and the limbs of its magnitude, least significant first, the number
\* being the sum of limbs[i] * LimbBase^(i - 1). The highest limb is not 0,
\* so 0 has no limb; -0 is not told from 0, which the code never does.
LimbBits == 24
LimbBase == 2^LimbBits
Zero == [kind |-> "finite", negative |-> FALSE, limbs |-> <<>>]
NaN == [kind |-> "NaN", negative |-> FALSE, limbs |-> <<>>]
Infinity(negative) == [kind |-> "infinite", negative |-> negative, limbs |-> <<>>]

\* The magnitude without its high limbs that are 0.
Trim(m) ==
    LET used == {i \in 1..Len(m) : m[i] # 0}
    IN  IF used = {} THEN <<>>
        ELSE SubSeq(m, 1, CHOOSE i \in used : \A j \in used : j <= i)
Finite(negative, m) ==
    IF Trim(m) = <<>> THEN Zero
    ELSE [kind |-> "finite", negative |-> negative, limbs |-> Trim(m)]

\* The number that is the integer n of the model.
Number(n) ==
    LET a == IF n < 0 THEN 0 - n ELSE n
    IN  Finite(n < 0, <<a % LimbBase, a \div LimbBase>>)

LimbOf(m, i) == IF i \in 1..Len(m) THEN m[i] ELSE 0

\* The limbs lo..hi of m * factor + carry and the carry out of them. The
\* range is halved, so that the depth of the evaluation grows with the
\* logarithm of the length only.
RECURSIVE TimesRange(_, _, _, _, _)
TimesRange(m, factor, lo, hi, carry) ==
    IF lo > hi THEN [limbs |-> <<>>, carry |-> carry]
    ELSE IF lo = hi
    THEN LET t == m[lo] * factor + carry
         IN  [limbs |-> <<t % LimbBase>>, carry |-> t \div LimbBase]
    ELSE LET mid == (lo + hi) \div 2
             low == TimesRange(m, factor, lo, mid, carry)
             high == TimesRange(m, factor, mid + 1, hi, low.carry)
         IN  [limbs |-> low.limbs \o high.limbs, carry |-> high.carry]
\* m * factor + digit, for a factor of at most 16 and a digit below it
TimesPlus(m, factor, digit) ==
    LET r == TimesRange(m, factor, 1, Len(m), digit)
    IN  Trim(r.limbs \o <<r.carry>>)

\* The limbs lo..hi of a + b + carry, and of a - b - carry for a >= b.
RECURSIVE SumRange(_, _, _, _, _)
SumRange(a, b, lo, hi, carry) ==
    IF lo > hi THEN [limbs |-> <<>>, carry |-> carry]
    ELSE IF lo = hi
    THEN LET t == LimbOf(a, lo) + LimbOf(b, lo) + carry
         IN  [limbs |-> <<t % LimbBase>>, carry |-> t \div LimbBase]
    ELSE LET mid == (lo + hi) \div 2
             low == SumRange(a, b, lo, mid, carry)
             high == SumRange(a, b, mid + 1, hi, low.carry)
         IN  [limbs |-> low.limbs \o high.limbs, carry |-> high.carry]
RECURSIVE DifferenceRange(_, _, _, _, _)
DifferenceRange(a, b, lo, hi, carry) ==
    IF lo > hi THEN [limbs |-> <<>>, carry |-> carry]
    ELSE IF lo = hi
    THEN LET t == LimbOf(a, lo) - LimbOf(b, lo) - carry
         IN  [limbs |-> <<IF t < 0 THEN t + LimbBase ELSE t>>,
              carry |-> IF t < 0 THEN 1 ELSE 0]
    ELSE LET mid == (lo + hi) \div 2
             low == DifferenceRange(a, b, lo, mid, carry)
             high == DifferenceRange(a, b, mid + 1, hi, low.carry)
         IN  [limbs |-> low.limbs \o high.limbs, carry |-> high.carry]
LongerOf(a, b) == IF Len(a) < Len(b) THEN Len(b) ELSE Len(a)
SumOf(a, b) ==
    LET r == SumRange(a, b, 1, LongerOf(a, b), 0)
    IN  Trim(r.limbs \o <<r.carry>>)
DifferenceOf(a, b) == Trim(DifferenceRange(a, b, 1, LongerOf(a, b), 0).limbs)
Below(a, b) ==
    \/ Len(a) < Len(b)
    \/ /\ Len(a) = Len(b)
       /\ \E i \in 1..Len(a) : a[i] < b[i] /\ \A j \in (i + 1)..Len(a) : a[j] = b[j]

\* The binary digits of a magnitude: digit i, counted from 1 at the low end,
\* and the number of digits up to the highest 1.
Bit(m, i) == (LimbOf(m, (i - 1) \div LimbBits + 1) \div 2^((i - 1) % LimbBits)) % 2
BitLength(m) ==
    IF m = <<>> THEN 0
    ELSE LimbBits * (Len(m) - 1)
           + (CHOOSE k \in 1..LimbBits : 2^(k - 1) <= m[Len(m)] /\ m[Len(m)] < 2^k)

\* The double nearest to a magnitude: the magnitude itself up to 53 binary
\* digits; a longer one keeps its 53 high digits, rounded to nearest, a tie
\* to the even one. (2^53 = 9007199254740992 is the first magnitude whose
\* successor is no double.)
RoundToDouble(m) ==
    LET shift == BitLength(m) - 53
        kept == [j \in 1..Len(m) |->
                    IF LimbBits * j <= shift THEN 0
                    ELSE IF LimbBits * (j - 1) >= shift THEN m[j]
                    ELSE LET k == shift - LimbBits * (j - 1)
                         IN  (m[j] \div 2^k) * 2^k]
        unit == [j \in 1..(shift \div LimbBits + 1) |->
                    IF j = shift \div LimbBits + 1 THEN 2^(shift % LimbBits) ELSE 0]
        up == /\ Bit(m, shift) = 1
              /\ \/ Bit(m, shift + 1) = 1
                 \/ \E i \in 1..(shift - 1) : Bit(m, i) = 1
    IN  IF shift <= 0 THEN m
        ELSE IF up THEN SumOf(kept, unit) ELSE kept

\* The number of a sign and a magnitude: what rounds to 2^1024 or beyond is
\* an infinity.
ToNumber(negative, m) ==
    IF BitLength(RoundToDouble(m)) > 1024 THEN Infinity(negative)
    ELSE Finite(negative, RoundToDouble(m))

\* x + y of two numbers: the sum of the two, rounded to a double.
Plus(x, y) ==
    IF x.kind = "NaN" \/ y.kind = "NaN" THEN NaN
    ELSE IF x.kind = "infinite" /\ y.kind = "infinite"
    THEN (IF x.negative = y.negative THEN x ELSE NaN)
    ELSE IF x.kind = "infinite" THEN x
    ELSE IF y.kind = "infinite" THEN y
    ELSE IF x.negative = y.negative THEN ToNumber(x.negative, SumOf(x.limbs, y.limbs))
    ELSE IF Below(x.limbs, y.limbs)
    THEN ToNumber(y.negative, DifferenceOf(y.limbs, x.limbs))
    ELSE ToNumber(x.negative, DifferenceOf(x.limbs, y.limbs))

\* parseInt: the leading digits of s in the radix.
DigitPrefix(s, radix) ==
    LET stops == {i \in 1..Len(s) : ~IsDigit(s[i], radix)}
    IN  IF stops = {} THEN s
        ELSE SubSeq(s, 1, (CHOOSE i \in stops : \A j \in stops : i <= j) - 1)
\* The digits without the leading zeros.
Significant(digits) ==
    LET used == {i \in 1..Len(digits) : digits[i] # "0"}
    IN  IF used = {} THEN <<>>
        ELSE SubSeq(digits, CHOOSE i \in used : \A j \in used : i <= j, Len(digits))

\* parseInt: the magnitude acc continued by the digits s in the radix, each
\* digit making acc * radix + digit of it. The digits are halved the way
\* the limbs are, and the first half is evaluated before the second is
\* entered.
RECURSIVE RadixValue(_, _, _)
RadixValue(s, radix, acc) ==
    IF s = <<>> THEN acc
    ELSE IF Len(s) = 1 THEN TimesPlus(acc, radix, DigitValue(s[1]))
    ELSE LET first == RadixValue(SubSeq(s, 1, Len(s) \div 2), radix, acc)
         IN  CASE Len(first) >= 0 ->
                    RadixValue(SubSeq(s, Len(s) \div 2 + 1, Len(s)), radix, first)

\* parseInt without a radix, after white space and sign: a text that starts
\* with 0x or 0X is read as hexadecimal from its third character, any
\* other as decimal; NaN when it has no digit there, else the double nearest
\* to the integer the digits write. More than 309 decimal digits after the
\* leading zeros, or 256 hexadecimal ones, write 2^1024 or more.
HasHexPrefix(s) == Len(s) >= 2 /\ s[1] = "0" /\ s[2] \in {"x", "X"}
DigitsValue(s) ==
    LET radix == IF HasHexPrefix(s) THEN 16 ELSE 10
        digits == DigitPrefix(IF HasHexPrefix(s) THEN SubSeq(s, 3, Len(s)) ELSE s, radix)
        most == IF HasHexPrefix(s) THEN 256 ELSE 309
    IN  IF digits = <<>> THEN NaN
        ELSE IF Len(Significant(digits)) > most THEN Infinity(FALSE)
        ELSE ToNumber(FALSE, RadixValue(Significant(digits), radix, <<>>))

TrimStart(s) ==
    LET text == {i \in 1..Len(s) : s[i] \notin Whitespace}
    IN  IF text = {} THEN <<>>
        ELSE SubSeq(s, CHOOSE i \in text : \A j \in text : i <= j, Len(s))

\* parseInt(text) || 0: leading white space, an optional sign, the leading
\* digits (hexadecimal after 0x); NaN (no digit) and 0 both give 0.
parseIntOr0(text) ==
    LET t == TrimStart(text)
        neg == t # <<>> /\ Head(t) = "-"
        u == IF t # <<>> /\ Head(t) \in {"-", "+"} THEN Tail(t) ELSE t
        value == DigitsValue(u)
    IN  IF value = NaN \/ value = Zero THEN Zero
        ELSE [value EXCEPT !.negative = neg]

\* csvText.split('\n').filter(line => line.trim())
linesOf(csvText) == SelectSeq(Split(csvText, "\n"), NonBlank)

\* const [filename, birdCount] = line.split(','); if (filename && birdCount)
CountsRow(line) ==
    LET f == Split(line, ",")
    IN  Len(f) >= 2 /\ f[1] # <<>> /\ f[2] # <<>>

\* let totalBirds = 0; for (const line of dataLines) totalBirds += ...: the
\* counts are added to the total one after another, first line first, each
\* sum rounded to a double. The lines are halved the way the digits are.
RECURSIVE totalBirdsFrom(_, _)
totalBirdsFrom(dataLines, total) ==
    IF dataLines = <<>> THEN total
    ELSE IF Len(dataLines) = 1
    THEN (IF CountsRow(dataLines[1])
          THEN Plus(total, parseIntOr0(Split(dataLines[1], ",")[2]))
          ELSE total)
    ELSE LET first == totalBirdsFrom(SubSeq(dataLines, 1, Len(dataLines) \div 2), total)
         IN  CASE first.kind # "" ->
                    totalBirdsFrom(SubSeq(dataLines, Len(dataLines) \div 2 + 1,
                                          Len(dataLines)), first)
totalBirds(dataLines) == totalBirdsFrom(dataLines, Zero)

fileCount(dataLines) == Len(SelectSeq(dataLines, CountsRow))

\* file.key.match(/bird-results-(.+)\.csv/): the group of the leftmost match,
\* taken greedily; then every '-' becomes ':'. 'Unknown' when there is none.
\* The places where '.csv' can end the group (.+) that starts at from: the
\* group is not empty and holds no line terminator, which '.' does not match.
GroupEnds(s, from) ==
    {j \in (from + 1)..(Len(s) - Len(CsvSuffix) + 1) :
        /\ SubSeq(s, j, j + Len(CsvSuffix) - 1) = CsvSuffix
        /\ \A n \in from..(j - 1) : s[n] \notin LineTerminators}
MatchStarts(s) ==
    {i \in 1..Len(s) :
        /\ i + Len(BirdResults) - 1 <= Len(s)
        /\ SubSeq(s, i, i + Len(BirdResults) - 1) = BirdResults
        /\ GroupEnds(s, i + Len(BirdResults)) # {}}

timestampOf(key) ==
    LET s == KeyChars(key)
    IN  IF MatchStarts(s) = {} THEN <<"U","n","k","n","o","w","n">>
        ELSE LET i == CHOOSE a \in MatchStarts(s) : \A b \in MatchStarts(s) : a <= b
                 from == i + Len(BirdResults)
                 ends == GroupEnds(s, from)
                 last == CHOOSE a \in ends : \A b \in ends : a >= b
                 g == SubSeq(s, from, last - 1)
             IN  [n \in 1..Len(g) |-> IF g[n] = "-" THEN ":" ELSE g[n]]

\* item.key?.endsWith('.csv')
isCSV(item) == EndsWith(KeyChars(item.path), CsvSuffix)

\* csvFiles.slice(0, 5)
RecentLimit == 5
recentFiles(files) == SubSeq(files, 1, IF Len(files) < RecentLimit THEN Len(files) ELSE RecentLimit)

\* body: the body of the response of downloadData, once it has resolved.
NoBody == ""
CheckIdle == [pc |-> "idle", items |-> <<>>, fresh |-> FALSE, errorSet |-> FALSE,
              idx |-> 0, body |-> NoBody, results |-> <<>>, clean |-> TRUE, failed |-> {}]

ProcessingResult(key, dataLines) ==
    [filename |-> fileCount(dataLines),       \* `${fileCount} images processed`
     birdCount |-> totalBirds(dataLines),
     extractionFolder |-> key,
     csvKey |-> key,
     downloadUrl |-> UrlOf(key),
     timestamp |-> timestampOf(key)]

\* checkForResults past its guard, up to the first await:
\* setIsChecking(true); list(...)
CheckForResultsStart ==
    /\ Idle(checks) # {}
    /\ isChecking' = TRUE
    /\ checks' = [checks EXCEPT ![FirstIdle(checks)] = [CheckIdle EXCEPT !.pc = "list"]]
    /\ UNCHANGED <<lastCheck, reported, reportCount, reportInfo>>

CheckerMount ==
    /\ component = "checker" /\ ~mounted
    /\ mounted' = TRUE
    /\ UNCHANGED <<component, uploaderVars, runnerVars, backendVars, repeated, storeVars, viewerVars, appVars, checkerVars>>

\* The parent sets isProcessing: the effect starts the 10 s interval with the
\* checkForResults of this render (its isChecking is the one rendered) and calls it.
CheckerProcessingStarts ==
    /\ component = "checker" /\ mounted /\ ~isProcessing
    /\ isProcessing' = TRUE
    /\ intervalOn' = TRUE
    /\ closureIsChecking' = isChecking
    /\ IF isChecking
       THEN UNCHANGED <<isChecking, checks, lastCheck, reported, reportCount, reportInfo>>
       ELSE CheckForResultsStart
    /\ UNCHANGED <<component, uploaderVars, runnerVars, backendVars, mounted, repeated, storeVars, viewerVars,
                   enhancedCSVs, polls, timers, appFresh>>

\* The parent clears isProcessing: the effect's cleanup clears the interval.
CheckerProcessingStops ==
    /\ component = "checker" /\ mounted /\ isProcessing
    /\ isProcessing' = FALSE
    /\ intervalOn' = FALSE
    /\ UNCHANGED <<component, uploaderVars, runnerVars, backendVars, mounted, repeated, storeVars, viewerVars,
                   enhancedCSVs, polls, timers, appFresh,
                   isChecking, lastCheck, checks, closureIsChecking,
                   reported, reportCount, reportInfo>>

\* The interval calls the checkForResults it was given: `if (isChecking) return`
\* reads that render's isChecking.
CheckerInterval ==
    /\ component = "checker" /\ intervalOn
    /\ ~closureIsChecking
    /\ CheckForResultsStart
    /\ UNCHANGED <<component, uploaderVars, runnerVars, backendVars, mounted, repeated, storeVars, viewerVars, appVars,
                   intervalOn, closureIsChecking>>

\* The button (disabled while isChecking) calls the current checkForResults.
handleManualCheck ==
    /\ component = "checker" /\ mounted
    /\ ~isChecking
    /\ CheckForResultsStart
    /\ UNCHANGED <<component, uploaderVars, runnerVars, backendVars, mounted, repeated, storeVars, viewerVars, appVars,
                   intervalOn, closureIsChecking>>

\* onResultsFound(results)
Report(c, results, fresh, clean, failed) ==
    /\ reported' = results
    /\ reportCount' = (reportCount + 1) % 2
    /\ reportInfo' = [fresh |-> fresh, clean |-> clean, failed |-> failed]
    /\ repeated' = (fresh /\ reportInfo.fresh)

\* Mutant: with no '.csv' item the check returns without reporting.
CheckForResultsListed_silent(c) ==
    /\ checks[c].pc = "list"
    /\ LET files == SortNewestFirst(SelectSeq(ListItems(store, ResultsPrefix), isCSV))
       IN  IF Len(files) = 0
           THEN /\ isChecking' = FALSE
                /\ checks' = [checks EXCEPT ![c] = CheckIdle]
                /\ UNCHANGED <<reported, reportCount, reportInfo, repeated>>
           ELSE /\ checks' = [checks EXCEPT ![c] =
                                [CheckIdle EXCEPT !.pc = "files", !.items = recentFiles(files),
                                                  !.fresh = TRUE, !.idx = 1]]
                /\ UNCHANGED <<reported, reportCount, reportInfo, isChecking, repeated>>
    /\ UNCHANGED <<component, uploaderVars, runnerVars, backendVars, mounted, storeVars, viewerVars, appVars,
                   lastCheck, intervalOn, closureIsChecking>>

\* list(...) resolves. No '.csv' item: onResultsFound([]); return (finally runs).
CheckForResultsListed(c) ==
    /\ checks[c].pc = "list"
    /\ LET files == SortNewestFirst(SelectSeq(ListItems(store, ResultsPrefix), isCSV))
       IN  IF Len(files) = 0
           THEN /\ Report(c, <<>>, TRUE, TRUE, {})
                /\ isChecking' = FALSE
                /\ checks' = [checks EXCEPT ![c] = CheckIdle]
           ELSE /\ checks' = [checks EXCEPT ![c] =
                                [CheckIdle EXCEPT !.pc = "files", !.items = recentFiles(files),
                                                  !.fresh = TRUE, !.idx = 1]]
                /\ UNCHANGED <<reported, reportCount, reportInfo, isChecking, repeated>>
    /\ UNCHANGED <<component, uploaderVars, runnerVars, backendVars, mounted, storeVars, viewerVars, appVars,
                   lastCheck, intervalOn, closureIsChecking>>

\* list(...) rejects: the outer catch; finally { setIsChecking(false) }
CheckForResultsListFailed(c) ==
    /\ checks[c].pc = "list"
    /\ isChecking' = FALSE
    /\ checks' = [checks EXCEPT ![c] = CheckIdle]
    /\ UNCHANGED <<component, uploaderVars, runnerVars, backendVars, mounted, repeated, storeVars, viewerVars, appVars,
                   lastCheck, intervalOn, closureIsChecking, reported, reportCount, reportInfo>>

\* Mutant: a failure at one file ends the loop over the files.
NextFile_stopAtFailure(c, results, clean, failed) ==
    IF checks[c].idx = Len(checks[c].items) \/ checks[c].idx \in failed
    THEN /\ Report(c, results, checks[c].fresh, clean, failed)
         /\ lastCheck' = now
         /\ isChecking' = FALSE
         /\ checks' = [checks EXCEPT ![c] = CheckIdle]
    ELSE /\ checks' = [checks EXCEPT ![c] =
                          [@ EXCEPT !.pc = "files", !.idx = @ + 1, !.body = NoBody,
                                    !.results = results, !.clean = clean, !.failed = failed]]
         /\ UNCHANGED <<reported, reportCount, reportInfo, lastCheck, isChecking, repeated>>

\* The end of one iteration of `for (const file of recentFiles)`: the next
\* file, and after the last file onResultsFound(results); setLastCheck(new
\* Date()); finally { setIsChecking(false) }
NextFile(c, results, clean, failed) ==
    IF checks[c].idx = Len(checks[c].items)
    THEN /\ Report(c, results, checks[c].fresh, clean, failed)
         /\ lastCheck' = now
         /\ isChecking' = FALSE
         /\ checks' = [checks EXCEPT ![c] = CheckIdle]
    ELSE /\ checks' = [checks EXCEPT ![c] =
                          [@ EXCEPT !.pc = "files", !.idx = @ + 1, !.body = NoBody,
                                    !.results = results, !.clean = clean, !.failed = failed]]
         /\ UNCHANGED <<reported, reportCount, reportInfo, lastCheck, isChecking, repeated>>

\* catch (error) { console.error(...) }: the file is left out.
FileFailed(c) ==
    NextFile(c, checks[c].results, FALSE, checks[c].failed \cup {checks[c].idx})

\* await downloadData({ key }).result settles: the response holds the body
\* the object has now.
CheckForResultsDownload(c, ok) ==
    /\ checks[c].pc = "files"
    /\ IF ok
       THEN /\ checks' = [checks EXCEPT
                            ![c].pc = "text",
                            ![c].body = store[checks[c].items[checks[c].idx].path].body]
            /\ UNCHANGED <<reported, reportCount, reportInfo, lastCheck, isChecking, repeated>>
       ELSE FileFailed(c)
    /\ UNCHANGED <<component, uploaderVars, runnerVars, backendVars, mounted, storeVars, viewerVars, appVars,
                   intervalOn, closureIsChecking>>

\* await downloadResult.body.text() settles; split, filter; a text of fewer
\* than two lines: continue. Else the rows are counted and getUrl is called.
CheckForResultsText(c, ok) ==
    /\ checks[c].pc = "text"
    /\ IF ok
       THEN IF Len(linesOf(BodyChars(checks[c].body))) < 2
            THEN NextFile(c, checks[c].results, checks[c].clean, checks[c].failed)
            ELSE /\ checks' = [checks EXCEPT ![c].pc = "url"]
                 /\ UNCHANGED <<reported, reportCount, reportInfo, lastCheck, isChecking,
                                repeated>>
       ELSE FileFailed(c)
    /\ UNCHANGED <<component, uploaderVars, runnerVars, backendVars, mounted, storeVars, viewerVars, appVars,
                   intervalOn, closureIsChecking>>

\* await getUrl(...) settles: the result of the file is pushed.
CheckForResultsFile(c, ok) ==
    /\ checks[c].pc = "url"
    /\ IF ok
       THEN NextFile(c, Append(checks[c].results,
                               ProcessingResult(checks[c].items[checks[c].idx].path,
                                                Tail(linesOf(BodyChars(checks[c].body))))),
                     checks[c].clean, checks[c].failed)
       ELSE FileFailed(c)
    /\ UNCHANGED <<component, uploaderVars, runnerVars, backendVars, mounted, storeVars, viewerVars, appVars,
                   intervalOn, closureIsChecking>>

----------------------------------------------------------------------------
\* Discovery: one client component per behaviour (the components keep
\* disjoint state and only read the store) beside the publishing stages.
-----------------------------------------------------------------------------
\* S3FileUploader, the upload form of BirdProcessingApp.

\* The File objects a user can drop: two archives of one name (from two
\* folders), an image, a text file, and an image as cameras name it, with
\* its extension in capitals.
Files == 1..5
FileName(f) ==
    CASE f = 1 -> "birds.zip" [] f = 2 -> "birds.zip" [] f = 3 -> "owl.jpg"
      [] f = 5 -> "DSC1.JPG" [] OTHER -> "notes.txt"
FileType(f) ==
    CASE f = 1 -> "application/zip" [] f = 2 -> "application/x-zip-compressed"
      [] f = 3 -> "image/jpeg" [] f = 5 -> "image/jpeg" [] OTHER -> "text/plain"
NameChars(n) ==
    CASE n = "birds.zip" -> <<"b","i","r","d","s",".","z","i","p">>
      [] n = "owl.jpg"   -> <<"o","w","l",".","j","p","g">>
      [] n = "DSC1.JPG"  -> <<"D","S","C","1",".","J","P","G">>
      [] OTHER           -> <<"n","o","t","e","s",".","t","x","t">>
TypeChars(t) ==
    CASE t = "application/zip" ->
            <<"a","p","p","l","i","c","a","t","i","o","n","/","z","i","p">>
      [] t = "application/x-zip-compressed" ->
            <<"a","p","p","l","i","c","a","t","i","o","n","/","x","-","z","i","p",
              "-","c","o","m","p","r","e","s","s","e","d">>
      [] t = "image/jpeg" -> <<"i","m","a","g","e","/","j","p","e","g">>
      [] OTHER -> <<"t","e","x","t","/","p","l","a","i","n">>
ImagePrefix   == <<"i","m","a","g","e","/">>
UploadsPrefix == <<"u","p","l","o","a","d","s","/">>

\* The FileLists of one drop or one selection.
Drops == {<<1>>, <<1, 2>>, <<2, 3>>, <<3, 4>>, <<5>>}

isValidFile(f) ==
    \/ FileType(f) = "application/zip"
    \/ FileType(f) = "application/x-zip-compressed"
    \/ StartsWith(TypeChars(FileType(f)), ImagePrefix)

\* n written with w decimal digits.
RECURSIVE Pad(_, _)
Pad(n, w) == IF w = 0 THEN <<>> ELSE Append(Pad(n \div 10, w - 1), Digits[(n % 10) + 1])

\* new Date(ms).toISOString(), for a time within the first day of the epoch
toISOString(ms) ==
    <<"1","9","7","0","-","0","1","-","0","1","T">>
      \o Pad(ms \div 3600000, 2) \o <<":">>
      \o Pad((ms \div 60000) % 60, 2) \o <<":">>
      \o Pad((ms \div 1000) % 60, 2) \o <<".">>
      \o Pad(ms % 1000, 3) \o <<"Z">>

\* .replace(/[:.]/g, '-')
ReplaceColonsDots(str) ==
    [i \in 1..Len(str) |-> IF str[i] \in {":", "."} THEN "-" ELSE str[i]]

\* uploadToS3: key = `uploads/${timestamp}-${file.name}`
uploadKey(ms, f) ==
    UploadsPrefix \o ReplaceColonsDots(toISOString(ms)) \o <<"-">> \o NameChars(FileName(f))

CallsOf(b) == {u \in 1..Len(uploadCalls) : uploadCalls[u].batch = b}

RECURSIVE SumTo(_, _)
SumTo(t, i) == IF i = 0 THEN 0 ELSE t[i] + SumTo(t, i - 1)

\* handleFiles: keep the ZIP and image files; setSelectedFiles(validFiles)
handleFiles(files) ==
    /\ component = "app" /\ mounted
    /\ selectedFiles' = SelectSeq(files, isValidFile)
    /\ UNCHANGED <<component, backendVars, mounted, repeated, storeVars, viewerVars, appVars, checkerVars,
                   runnerVars, uploadProgress, uploadedFiles, uploadCalls, batches,
                   uploads, msClock>>

\* handleUpload up to its await: setUploadProgress({}); selectedFiles.map runs
\* uploadToS3 for each file up to its own await, one after the other in one
\* task. The millisecond clock has advanced since the previous task, and
\* advances by ticks[i] (0 or 1) between one file and the next.
handleUpload ==
    /\ component = "app" /\ mounted
    /\ Len(selectedFiles) # 0
    /\ ~isProcessing /\ uploadProgress = {}        \* the Upload button is shown
    /\ Len(batches) < MaxSubmits
    /\ \E ticks \in {t \in [1..Len(selectedFiles) -> {0, 1}] : t[1] = 1} :
          /\ msClock + SumTo(ticks, Len(selectedFiles)) <= MaxMs
          /\ msClock' = msClock + SumTo(ticks, Len(selectedFiles))
          /\ uploadCalls' = uploadCalls \o
                [i \in 1..Len(selectedFiles) |->
                    [batch |-> Len(batches) + 1,
                     file  |-> selectedFiles[i],
                     key   |-> uploadKey(msClock + SumTo(ticks, i), selectedFiles[i]),
                     pc    |-> "sending"]]
    /\ batches' = Append(batches, [files |-> selectedFiles, pc |-> "awaiting"])
    /\ uploadProgress' = {}
    /\ UNCHANGED <<component, backendVars, mounted, repeated, storeVars, viewerVars, appVars, checkerVars,
                   runnerVars, selectedFiles, uploadedFiles, uploads>>

\* onProgress of an upload in flight: setUploadProgress({...prev, [file.name]: progress})
UploadDataProgress(u) ==
    /\ u \in 1..Len(uploadCalls) /\ uploadCalls[u].pc = "sending"
    /\ FileName(uploadCalls[u].file) \notin uploadProgress
    /\ uploadProgress' = uploadProgress \cup {FileName(uploadCalls[u].file)}
    /\ UNCHANGED <<component, backendVars, mounted, repeated, storeVars, viewerVars, appVars, checkerVars,
                   runnerVars, selectedFiles, uploadedFiles, uploadCalls, batches,
                   uploads, msClock>>

\* uploadData(...).result resolves: the object is stored under the key,
\* replacing what the key held.
UploadDataDone(u) ==
    /\ u \in 1..Len(uploadCalls) /\ uploadCalls[u].pc = "sending"
    /\ uploads' = [k \in DOMAIN uploads \cup {uploadCalls[u].key} |->
                     IF k = uploadCalls[u].key THEN uploadCalls[u].file ELSE uploads[k]]
    /\ uploadCalls' = [uploadCalls EXCEPT ![u].pc = "done"]
    /\ UNCHANGED <<component, backendVars, mounted, repeated, storeVars, viewerVars, appVars, checkerVars,
                   runnerVars, selectedFiles, uploadProgress, uploadedFiles, batches, msClock>>

\* uploadData(...).result rejects: uploadToS3 rethrows.
UploadDataFailed(u) ==
    /\ u \in 1..Len(uploadCalls) /\ uploadCalls[u].pc = "sending"
    /\ uploadCalls' = [uploadCalls EXCEPT ![u].pc = "failed"]
    /\ UNCHANGED <<component, backendVars, mounted, repeated, storeVars, viewerVars, appVars, checkerVars,
                   runnerVars, selectedFiles, uploadProgress, uploadedFiles, batches,
                   uploads, msClock>>

KeysOf(b) ==
    LET calls == SelectSeq(uploadCalls, LAMBDA c : c.batch = b)
    IN  [i \in 1..Len(calls) |-> calls[i].key]

\* Promise.all resolves: setUploadedFiles(uploadedKeys); onFileUpload(selectedFiles)
\* (BirdProcessingApp.handleFileUpload); setSelectedFiles([]); setUploadProgress({})
handleUploadDone(b) ==
    /\ b \in 1..Len(batches) /\ batches[b].pc = "awaiting"
    /\ \A u \in CallsOf(b) : uploadCalls[u].pc = "done"
    /\ timers + Cardinality(DOMAIN polls \ Idle(polls)) < MaxLoads
    /\ uploadedFiles' = KeysOf(b)
    /\ isProcessing' = TRUE
    /\ timers' = timers + 1
    /\ selectedFiles' = <<>>
    /\ uploadProgress' = {}
    /\ batches' = [batches EXCEPT ![b].pc = "done"]
    /\ UNCHANGED <<component, backendVars, mounted, repeated, storeVars, viewerVars, checkerVars,
                   runnerVars, enhancedCSVs, polls, appFresh, uploadCalls, uploads, msClock>>

\* Mutant: the failure is handled as the success is.
handleUploadFailed_asSuccess(b) ==
    /\ b \in 1..Len(batches) /\ batches[b].pc = "awaiting"
    /\ \E u \in CallsOf(b) : uploadCalls[u].pc = "failed"
    /\ timers + Cardinality(DOMAIN polls \ Idle(polls)) < MaxLoads
    /\ uploadedFiles' = KeysOf(b)
    /\ isProcessing' = TRUE
    /\ timers' = timers + 1
    /\ selectedFiles' = <<>>
    /\ uploadProgress' = {}
    /\ batches' = [batches EXCEPT ![b].pc = "failed"]
    /\ UNCHANGED <<component, backendVars, mounted, repeated, storeVars, viewerVars, checkerVars,
                   runnerVars, enhancedCSVs, polls, appFresh, uploadCalls, uploads, msClock>>

\* Promise.all rejects with the first failure: alert; setUploadProgress({})
handleUploadFailed(b) ==
    /\ b \in 1..Len(batches) /\ batches[b].pc = "awaiting"
    /\ \E u \in CallsOf(b) : uploadCalls[u].pc = "failed"
    /\ uploadProgress' = {}
    /\ batches' = [batches EXCEPT ![b].pc = "failed"]
    /\ UNCHANGED <<component, backendVars, mounted, repeated, storeVars, viewerVars, appVars, checkerVars,
                   runnerVars, selectedFiles, uploadedFiles, uploadCalls, uploads, msClock>>

-----------------------------------------------------------------------------
\* The notebook instance: createSageMakerNotebook and the lifecycle script.

\* The text of lifecycle_config_production.sh as a sequence of words: a line
\* end is a word, a double quote is a word, a placeholder is a word, and the
\* line that fetches the processing script is cut around the placeholder and
\* the path. The words put one after another are the text of the file.
RawLifecycleScript ==
    <<
       "#!/bin/bash", "\n",
       "# Production Lifecycle Script with Species Classification", "\n",
       "\n",
       "exec > /tmp/lifecycle.log 2>&1", "\n",
       "\n",
       "echo ", "\"", "=== PRODUCTION LIFECYCLE STARTED at $(date) ===", "\"", "\n",
       "\n",
       "# Copy the production script to SageMaker directory", "\n",
       "sudo -u ec2-user bash << 'EOF'", "\n",
       "cd /home/ec2-user/SageMaker", "\n",
       "source /home/ec2-user/anaconda3/bin/activate", "\n",
       "\n",
       "echo ", "\"", "Installing packages...", "\"", "\n",
       "pip install --quiet boto3 pandas pillow", "\n",
       "\n",
       "# Write configuration file", "\n",
       "cat > /home/ec2-user/SageMaker/config.json << 'CONFIG_EOF'", "\n",
       "CONFIG_JSON_PLACEHOLDER", "\n",
       "CONFIG_EOF", "\n",
       "\n",
       "chmod 644 /home/ec2-user/SageMaker/config.json", "\n",
       "echo ", "\"", "Configuration written: ", "$(cat /home/ec2-user/SageMaker/config.json)", "\"", "\n",
       "\n",
       "echo ", "\"", "Copying production script from S3...", "\"", "\n",
       "aws s3 cp ", "s3://", "BUCKET_NAME_PLACEHOLDER", "/scripts/bird_species_counter_production.py", " bird_species_counter_production.py", "\n",
       "\n",
       "if [ ! -f bird_species_counter_production.py ]; then", "\n",
       "    echo ", "\"", "ERROR: Failed to download script from S3", "\"", "\n",
       "    exit 1", "\n",
       "fi", "\n",
       "\n",
       "chmod +x bird_species_counter_production.py", "\n",
       "\n",
       "echo ", "\"", "Running production script...", "\"", "\n",
       "python3 bird_species_counter_production.py", "\n",
       "\n",
       "EOF", "\n",
       "\n",
       "echo ", "\"", "=== PRODUCTION LIFECYCLE COMPLETED at $(date) ===", "\""
    >>
NoScript == <<>>
NewLine == "\n"
Quote == "\""

\* The lines of the script, as a shell reads them.
Comments ==
    {"#!/bin/bash", "# Production Lifecycle Script with Species Classification",
     "# Copy the production script to SageMaker directory", "# Write configuration file"}
RedirectLine == "exec > /tmp/lifecycle.log 2>&1"
EchoWords == {"echo ", "    echo "}
Started == "=== PRODUCTION LIFECYCLE STARTED at $(date) ==="
Completed == "=== PRODUCTION LIFECYCLE COMPLETED at $(date) ==="
DownloadError == "ERROR: Failed to download script from S3"
ConfigText == "$(cat /home/ec2-user/SageMaker/config.json)"
SubShellOpen == "sudo -u ec2-user bash << 'EOF'"
SubShellEnd == "EOF"
DirectoryLine == "cd /home/ec2-user/SageMaker"
HereDocOpen == "cat > /home/ec2-user/SageMaker/config.json << 'CONFIG_EOF'"
HereDocEnd == "CONFIG_EOF"
FetchCommand == "aws s3 cp "
FetchScheme == "s3://"
FetchPath == "/scripts/bird_species_counter_production.py"
FetchTarget == " bird_species_counter_production.py"
TestLine == "if [ ! -f bird_species_counter_production.py ]; then"
TestEnd == "fi"
ExitLine == "    exit 1"
PythonLine == "python3 bird_species_counter_production.py"
\* Commands that are taken to succeed and change nothing the model keeps.
Succeeding ==
    {"source /home/ec2-user/anaconda3/bin/activate",
     "pip install --quiet boto3 pandas pillow",
     "chmod 644 /home/ec2-user/SageMaker/config.json",
     "chmod +x bird_species_counter_production.py"}

BucketName   == "bird-bucket"          \* bucket.bucketName
NotebookName == "bird-species-classifier-notebook-v4"
DefaultModel == "bird-species-detection-model"
DefaultRegion == "us-east-1"
StackRegion  == "us-west-2"            \* Stack.of(scope).region
Undefined    == "undefined"            \* an environment variable that is not set
\* Values of SAGEMAKER_MODEL_NAME and SAGEMAKER_REGION in process.env: unset,
\* empty, a name, and the four patterns String.prototype.replace reads in a
\* replacement text (the grave accent written as its code point).
EnvValues    == {Undefined, "", "custom-model", "$$", "$&", "$U+0060", "$'"}
ScriptVersions == {1, 2}               \* the versions of the processing script

\* a || b
OrDefault(a, b) == IF a \in {Undefined, ""} THEN b ELSE a

\* const config = { bucket_name, model_name, notebook_name, s3_region, sagemaker_region }
Config(envModel, envRegion) ==
    << <<"bucket_name", BucketName>>,
       <<"model_name", OrDefault(envModel, DefaultModel)>>,
       <<"notebook_name", NotebookName>>,
       <<"s3_region", StackRegion>>,
       <<"sagemaker_region", OrDefault(envRegion, DefaultRegion)>> >>

\* JSON.stringify of an object of strings, as a sequence of words: every
\* name and every value is a word between two quotes (the values of the
\* model hold no character that JSON.stringify escapes).
RECURSIVE Members(_)
Members(obj) ==
    IF obj = <<>> THEN <<>>
    ELSE <<Quote, Head(obj)[1], Quote, ":", Quote, Head(obj)[2], Quote>>
           \o (IF Tail(obj) = <<>> THEN <<>> ELSE <<",">> \o Members(Tail(obj)))
JSONstringify(obj) == <<"{">> \o Members(obj) \o <<"}">>

\* Whether a text is the JSON of an object of strings, member by member.
IsJSON(text) ==
    /\ Len(text) >= 9 /\ (Len(text) - 1) % 8 = 0
    /\ text[1] = "{"
    /\ \A k \in 0..((Len(text) - 1) \div 8 - 1) :
          LET p == 2 + 8 * k
          IN  /\ text[p] = Quote /\ text[p + 1] \notin {Quote, NewLine}
              /\ text[p + 2] = Quote /\ text[p + 3] = ":"
              /\ text[p + 4] = Quote /\ text[p + 5] \notin {Quote, NewLine}
              /\ text[p + 6] = Quote
              /\ text[p + 7] = IF p + 7 = Len(text) THEN "}" ELSE ","

\* The value of a member of a JSON text; Undefined when the text is not the
\* JSON of an object or has no such member.
JSONmember(text, name) ==
    LET at == {k \in 0..((Len(text) - 1) \div 8 - 1) : text[3 + 8 * k] = name}
    IN  IF IsJSON(text) /\ at # {}
        THEN text[7 + 8 * (CHOOSE k \in at : \A j \in at : k >= j)]
        ELSE Undefined

\* The replacement text of String.prototype.replace for one match: in the
\* value, $$ stands for a dollar sign, $& for the matched text, $` for the
\* text before the match and $' for the text after it (the expression has
\* no group, so $1 and the like stand for themselves). A pattern is a word
\* of its own in the value, the grave accent written as its code point; the
\* text before and after the match is that of the whole text replace is
\* called on.
RECURSIVE Substitution(_, _, _, _)
Substitution(value, matched, before, after) ==
    IF value = <<>> THEN <<>>
    ELSE (CASE Head(value) = "$$" -> <<"$">>
            [] Head(value) = "$&" -> <<matched>>
            [] Head(value) = "$U+0060" -> before
            [] Head(value) = "$'" -> after
            [] OTHER -> <<Head(value)>>)
           \o Substitution(Tail(value), matched, before, after)

\* text.replace(/placeholder/g, value): every match, left to right, gives
\* way to its replacement text; what comes before and after a match is taken
\* from the text replace was called on. The words lo..hi of the result; the
\* range is halved.
RECURSIVE ReplaceRange(_, _, _, _, _)
ReplaceRange(text, lo, hi, placeholder, value) ==
    IF lo > hi THEN <<>>
    ELSE IF lo = hi
    THEN (IF text[lo] = placeholder
          THEN Substitution(value, placeholder, SubSeq(text, 1, lo - 1),
                            SubSeq(text, lo + 1, Len(text)))
          ELSE <<text[lo]>>)
    ELSE ReplaceRange(text, lo, (lo + hi) \div 2, placeholder, value)
           \o ReplaceRange(text, (lo + hi) \div 2 + 1, hi, placeholder, value)
ReplaceWords(text, placeholder, value) ==
    ReplaceRange(text, 1, Len(text), placeholder, value)
\* rawLifecycleScript.replace(/placeholder/g, value), on the whole script
Replace(script, placeholder, value) == ReplaceWords(script, placeholder, value)

\* The lifecycle script of a deployment with SAGEMAKER_MODEL_NAME = envModel
\* and SAGEMAKER_REGION = envRegion.
Deployed(envModel, envRegion) ==
    Replace(Replace(RawLifecycleScript, "BUCKET_NAME_PLACEHOLDER", <<BucketName>>),
            "CONFIG_JSON_PLACEHOLDER", JSONstringify(Config(envModel, envRegion)))

\* The lifecycle scripts of the deployments of the model.
Deployments == [envModel \in EnvValues, envRegion \in EnvValues |-> Deployed(envModel, envRegion)]

\* How a shell reads a text of which it is given the words up to end.
\* The line end of the line of word p; end + 1 on the last line.
RECURSIVE LineEnd(_, _, _)
LineEnd(text, p, end) ==
    IF p > end \/ text[p] = NewLine THEN p ELSE LineEnd(text, p + 1, end)

\* The end of the command that begins at word p: the first line end that is
\* not between double quotes, end + 1 when the text ends before one, and 0
\* when the text ends between double quotes: the shell then finds no
\* matching quote and has no command to execute.
RECURSIVE CommandEnd(_, _, _, _)
CommandEnd(text, p, end, quoted) ==
    IF p > end THEN (IF quoted THEN 0 ELSE p)
    ELSE IF text[p] = NewLine /\ ~quoted THEN p
    ELSE CommandEnd(text, p + 1, end, IF text[p] = Quote THEN ~quoted ELSE quoted)

\* A comment runs to the end of its line, whatever it holds.
ReadEnd(text, p, end) ==
    IF text[p] \in Comments THEN LineEnd(text, p, end) ELSE CommandEnd(text, p, end, FALSE)

\* The line that ends a here-document whose first line begins at word from:
\* the first line that is the delimiter and nothing else; end + 2 when there
\* is none, the here-document then being the rest of the text.
DelimiterAt(text, from, end, delimiter) ==
    LET at == {j \in from..end : /\ text[j] = delimiter
                                 /\ text[j - 1] = NewLine
                                 /\ (j = end \/ text[j + 1] = NewLine)}
    IN  IF at = {} THEN end + 2 ELSE CHOOSE j \in at : \A k \in at : j <= k

\* What a command is to the shell.
Kind(command) ==
    CASE command = <<>> -> "blank"
      [] command # <<>> /\ Head(command) \in Comments -> "blank"
      [] command \in {<<line>> : line \in Succeeding \cup {TestEnd}} -> "succeeding"
      [] command = <<RedirectLine>> -> "redirect"
      [] command # <<>> /\ Head(command) \in EchoWords -> "echo"
      [] command = <<SubShellOpen>> -> "subshell"
      [] command = <<DirectoryLine>> -> "directory"
      [] command = <<HereDocOpen>> -> "heredoc"
      [] /\ Len(command) >= 4 /\ command[1] = FetchCommand /\ command[2] = FetchScheme
         /\ command[Len(command) - 1] = FetchPath
         /\ command[Len(command)] = FetchTarget -> "fetch"
      [] command = <<TestLine>> -> "test"
      [] command = <<ExitLine>> -> "exit"
      [] command = <<PythonLine>> -> "python"
      [] OTHER -> "unknown"

\* The bucket an aws s3 cp command fetches from: its words between s3:// and
\* the path.
FetchBucket(command) == SubSeq(command, 3, Len(command) - 2)

\* What echo writes for its arguments: the words without the double quotes,
\* the command substitution giving the text of config.json.
RECURSIVE Printed(_, _)
Printed(arguments, config) ==
    IF arguments = <<>> THEN <<>>
    ELSE (CASE Head(arguments) = Quote -> <<>>
            [] Head(arguments) = ConfigText -> config
            [] OTHER -> <<Head(arguments)>>)
           \o Printed(Tail(arguments), config)

\* The shell that is executing: the lifecycle script is read by the first
\* shell, a sub-shell by the shell put on top of it.
Shell == shells[Len(shells)]
Reading ==
    /\ runPc = "shell" /\ shells # <<>>
    /\ Shell.at <= Shell.end
    /\ ReadEnd(lifecycleScript, Shell.at, Shell.end) # 0
CommandStop == ReadEnd(lifecycleScript, Shell.at, Shell.end)
Command == SubSeq(lifecycleScript, Shell.at, CommandStop - 1)
\* The shell has read its text to the end, or what is left is no command; it
\* ends with the status of its last command, and with 2 for the unmatched
\* quote when that status is 0.
Ended ==
    /\ runPc = "shell" /\ shells # <<>>
    /\ IF Shell.at > Shell.end THEN TRUE
       ELSE ReadEnd(lifecycleScript, Shell.at, Shell.end) = 0
EndStatus ==
    IF Shell.at > Shell.end \/ Shell.status # 0 THEN Shell.status ELSE 2
\* The shell goes on to the word at with the status of the command executed.
Goes(at, status) ==
    shells' = [shells EXCEPT ![Len(shells)] = [@ EXCEPT !.at = at, !.status = status]]
\* A shell ends with a status: its parent goes on with that status.
Returns(status) ==
    /\ Len(shells) > 1
    /\ shells' = [SubSeq(shells, 1, Len(shells) - 1) EXCEPT ![Len(shells) - 1].status = status]
    /\ subshellExit' = status
\* The copy of the processing script in the directory of a shell.
File(cwd) == IF cwd = "SageMaker" THEN localScript ELSE rootScript

outsideVars == <<component, backendVars, mounted, repeated, storeVars, viewerVars, appVars,
                 checkerVars, uploaderVars>>

\* createSageMakerNotebook: the lifecycle configuration of the stack deployed
\* with SAGEMAKER_MODEL_NAME = envModel and SAGEMAKER_REGION = envRegion
createSageMakerNotebook(envModel, envRegion) ==
    /\ component = "runner" /\ runPc = "stopped"
    /\ startups < MaxStartups
    /\ lifecycleScript' = Deployments[envModel, envRegion]
    /\ sagemakerModelName' = OrDefault(envModel, DefaultModel)
    /\ lifecycleScript' # lifecycleScript \/ sagemakerModelName' # sagemakerModelName
    /\ UNCHANGED <<outsideVars, bucketScript, localScript, rootScript, configFile, configRun,
                   runPc, shells, startups, fetchOk, ranScript, lifecycleLog, subshellExit,
                   exitStatus>>

\* The processing script is put to scripts/ of the bucket by hand.
UploadScript(v) ==
    /\ component = "runner" /\ bucketScript # v
    /\ bucketScript' = v
    /\ UNCHANGED <<outsideVars, lifecycleScript, sagemakerModelName, localScript, rootScript,
                   configFile, configRun, runPc, shells, startups, fetchOk, ranScript,
                   lifecycleLog, subshellExit, exitStatus>>

\* The instance starts and a shell begins to execute the lifecycle script in
\* its start directory.
NotebookStart ==
    /\ component = "runner" /\ runPc = "stopped"
    /\ lifecycleScript # NoScript
    /\ startups < MaxStartups
    /\ startups' = startups + 1
    /\ shells' = << [at |-> 1, end |-> Len(lifecycleScript), cwd |-> "start", status |-> 0] >>
    /\ lifecycleLog' = <<>>
    /\ fetchOk' = "pending" /\ ranScript' = 0
    /\ subshellExit' = 0 /\ exitStatus' = "none"
    /\ runPc' = "shell"
    /\ UNCHANGED <<outsideVars, lifecycleScript, sagemakerModelName, bucketScript, localScript,
                   rootScript, configFile, configRun>>

\* An empty line or a comment, which leave the status as it is; source, pip
\* install, chmod and the fi that ends a block, which leave 0.
Skip ==
    /\ Reading /\ Kind(Command) \in {"blank", "succeeding"}
    /\ Goes(CommandStop + 1, IF Kind(Command) = "blank" THEN Shell.status ELSE 0)
    /\ UNCHANGED <<outsideVars, lifecycleScript, sagemakerModelName, bucketScript, localScript,
                   rootScript, configFile, configRun, runPc, startups, fetchOk, ranScript,
                   lifecycleLog, subshellExit, exitStatus>>

\* exec > /tmp/lifecycle.log 2>&1: the log is opened anew
RedirectLog ==
    /\ Reading /\ Kind(Command) = "redirect"
    /\ lifecycleLog' = <<>>
    /\ Goes(CommandStop + 1, 0)
    /\ UNCHANGED <<outsideVars, lifecycleScript, sagemakerModelName, bucketScript, localScript,
                   rootScript, configFile, configRun, runPc, startups, fetchOk, ranScript,
                   subshellExit, exitStatus>>

\* echo ...: a line of the log
Echo ==
    /\ Reading /\ Kind(Command) = "echo"
    /\ lifecycleLog' = Append(lifecycleLog, Printed(Tail(Command), configFile))
    /\ Goes(CommandStop + 1, 0)
    /\ UNCHANGED <<outsideVars, lifecycleScript, sagemakerModelName, bucketScript, localScript,
                   rootScript, configFile, configRun, runPc, startups, fetchOk, ranScript,
                   subshellExit, exitStatus>>

\* sudo -u ec2-user bash << 'EOF': a sub-shell reads the lines up to the first
\* line that is EOF, in the directory of its parent; the parent goes on after
\* that line once the sub-shell has ended.
SubShell ==
    /\ Reading /\ Kind(Command) = "subshell"
    /\ LET d == DelimiterAt(lifecycleScript, CommandStop + 1, Shell.end, SubShellEnd)
       IN  shells' = Append([shells EXCEPT ![Len(shells)].at = d + 2],
                            [at |-> CommandStop + 1, end |-> d - 2, cwd |-> Shell.cwd,
                             status |-> 0])
    /\ UNCHANGED <<outsideVars, lifecycleScript, sagemakerModelName, bucketScript, localScript,
                   rootScript, configFile, configRun, runPc, startups, fetchOk, ranScript,
                   lifecycleLog, subshellExit, exitStatus>>

\* cd /home/ec2-user/SageMaker
ChangeDirectory ==
    /\ Reading /\ Kind(Command) = "directory"
    /\ shells' = [shells EXCEPT ![Len(shells)] =
                     [@ EXCEPT !.at = CommandStop + 1, !.status = 0, !.cwd = "SageMaker"]]
    /\ UNCHANGED <<outsideVars, lifecycleScript, sagemakerModelName, bucketScript, localScript,
                   rootScript, configFile, configRun, runPc, startups, fetchOk, ranScript,
                   lifecycleLog, subshellExit, exitStatus>>

\* cat > /home/ec2-user/SageMaker/config.json << 'CONFIG_EOF': config.json is
\* the lines up to the first line that is CONFIG_EOF.
WriteConfig ==
    /\ Reading /\ Kind(Command) = "heredoc"
    /\ LET d == DelimiterAt(lifecycleScript, CommandStop + 1, Shell.end, HereDocEnd)
       IN  /\ configFile' = SubSeq(lifecycleScript, CommandStop + 1, d - 2)
           /\ Goes(d + 2, 0)
    /\ configRun' = startups
    /\ UNCHANGED <<outsideVars, lifecycleScript, sagemakerModelName, bucketScript, localScript,
                   rootScript, runPc, startups, fetchOk, ranScript, lifecycleLog, subshellExit,
                   exitStatus>>

\* aws s3 cp s3://<bucket>/scripts/bird_species_counter_production.py
\* bird_species_counter_production.py: the copy can succeed when the bucket
\* named holds the script, and puts it in the directory of the shell; the
\* shell goes on whatever the outcome.
FetchScript(ok) ==
    /\ Reading /\ Kind(Command) = "fetch"
    /\ ok => (FetchBucket(Command) = <<BucketName>> /\ bucketScript # 0)
    /\ IF Shell.cwd = "SageMaker"
       THEN /\ localScript' = (IF ok THEN bucketScript ELSE localScript)
            /\ UNCHANGED rootScript
       ELSE /\ rootScript' = (IF ok THEN bucketScript ELSE rootScript)
            /\ UNCHANGED localScript
    /\ fetchOk' = IF ok THEN "ok" ELSE "failed"
    /\ Goes(CommandStop + 1, IF ok THEN 0 ELSE 1)
    /\ UNCHANGED <<outsideVars, lifecycleScript, sagemakerModelName, bucketScript, configFile,
                   configRun, runPc, startups, ranScript, lifecycleLog, subshellExit,
                   exitStatus>>

\* if [ ! -f bird_species_counter_production.py ]; then ... fi: without the
\* file in its directory the shell goes on into the block, with it after fi
CheckScript ==
    /\ Reading /\ Kind(Command) = "test"
    /\ IF File(Shell.cwd) = 0
       THEN Goes(CommandStop + 1, 0)
       ELSE Goes(DelimiterAt(lifecycleScript, CommandStop + 1, Shell.end, TestEnd) + 2, 0)
    /\ UNCHANGED <<outsideVars, lifecycleScript, sagemakerModelName, bucketScript, localScript,
                   rootScript, configFile, configRun, runPc, startups, fetchOk, ranScript,
                   lifecycleLog, subshellExit, exitStatus>>

\* exit 1: the shell ends; when it is the shell of the lifecycle script, so
\* does the script
ExitShell ==
    /\ Reading /\ Kind(Command) = "exit"
    /\ IF Len(shells) > 1
       THEN /\ Returns(1)
            /\ UNCHANGED <<runPc, exitStatus>>
       ELSE /\ shells' = <<>>
            /\ exitStatus' = "1"
            /\ runPc' = "done"
            /\ UNCHANGED subshellExit
    /\ UNCHANGED <<outsideVars, lifecycleScript, sagemakerModelName, bucketScript, localScript,
                   rootScript, configFile, configRun, startups, fetchOk, ranScript,
                   lifecycleLog>>

\* python3 bird_species_counter_production.py starts on the copy in the
\* directory of the shell; without a copy python3 ends at once with status 2
RunScript ==
    /\ Reading /\ Kind(Command) = "python"
    /\ IF File(Shell.cwd) # 0
       THEN /\ ranScript' = File(Shell.cwd)
            /\ runPc' = "running"
            /\ Goes(CommandStop + 1, Shell.status)
       ELSE /\ Goes(CommandStop + 1, 2)
            /\ UNCHANGED <<ranScript, runPc>>
    /\ UNCHANGED <<outsideVars, lifecycleScript, sagemakerModelName, bucketScript, localScript,
                   rootScript, configFile, configRun, startups, fetchOk, lifecycleLog,
                   subshellExit, exitStatus>>

\* The processing script exits with status code.
ScriptExits(code) ==
    /\ runPc = "running"
    /\ Goes(Shell.at, code)
    /\ runPc' = "shell"
    /\ UNCHANGED <<outsideVars, lifecycleScript, sagemakerModelName, bucketScript, localScript,
                   rootScript, configFile, configRun, startups, fetchOk, ranScript,
                   lifecycleLog, subshellExit, exitStatus>>

\* A line that is no command the shell knows: status 127, and the shell goes on
NotFound ==
    /\ Reading /\ Kind(Command) = "unknown"
    /\ Goes(CommandStop + 1, 127)
    /\ UNCHANGED <<outsideVars, lifecycleScript, sagemakerModelName, bucketScript, localScript,
                   rootScript, configFile, configRun, runPc, startups, fetchOk, ranScript,
                   lifecycleLog, subshellExit, exitStatus>>

\* The sub-shell has nothing left to execute: its parent goes on, with the
\* status of the sub-shell as the status of the sudo command.
SubShellEnds ==
    /\ Ended
    /\ Returns(EndStatus)
    /\ UNCHANGED <<outsideVars, lifecycleScript, sagemakerModelName, bucketScript, localScript,
                   rootScript, configFile, configRun, runPc, startups, fetchOk, ranScript,
                   lifecycleLog, exitStatus>>

\* The shell of the lifecycle script has nothing left to execute: the script
\* ends with the status of the last command executed, whatever the status of
\* a sub-shell before it was.
LifecycleEnd ==
    /\ Ended /\ Len(shells) = 1
    /\ exitStatus' = ToString(EndStatus)
    /\ shells' = <<>>
    /\ runPc' = "done"
    /\ UNCHANGED <<outsideVars, lifecycleScript, sagemakerModelName, bucketScript, localScript,
                   rootScript, configFile, configRun, startups, fetchOk, ranScript,
                   lifecycleLog, subshellExit>>

\* The instance is stopped; its /home/ec2-user/SageMaker volume is kept, the
\* start directory of the lifecycle script is not.
NotebookStop ==
    /\ runPc = "done"
    /\ runPc' = "stopped"
    /\ rootScript' = 0
    /\ UNCHANGED <<outsideVars, lifecycleScript, sagemakerModelName, bucketScript, localScript,
                   configFile, configRun, shells, startups, fetchOk, ranScript, lifecycleLog,
                   subshellExit, exitStatus>>

-----------------------------------------------------------------------------
\* The upload pipeline: the trigger of the function birdProcessor, and its
\* unpacker, invoker and aggregator.

AttemptCeiling   == 2        \* attempts at one item, the first one included
ConcurrencyLimit == 2        \* calls to the counting service in flight in one run
Counts           == {0, 2}   \* counts the counting service answers

\* Objects of the uploads namespaces.
Artifacts ==
    {"uploads/batch.zip", "uploads/empty.zip", "uploads/corrupt.zip",
     "public/uploads/owl.jpg", "uploads/notes.txt"}
ArtifactChars(a) ==
    CASE a = "uploads/batch.zip" -> <<"u","p","l","o","a","d","s","/","b","a","t","c","h",".","z","i","p">>
      [] a = "uploads/empty.zip" -> <<"u","p","l","o","a","d","s","/","e","m","p","t","y",".","z","i","p">>
      [] a = "uploads/corrupt.zip" -> <<"u","p","l","o","a","d","s","/","c","o","r","r","u","p","t",".","z","i","p">>
      [] a = "public/uploads/owl.jpg" -> <<"p","u","b","l","i","c","/","u","p","l","o","a","d","s","/","o","w","l",".","j","p","g">>
      [] OTHER -> <<"u","p","l","o","a","d","s","/","n","o","t","e","s",".","t","x","t">>
EntryChars(n) ==
    CASE n = "a.jpg" -> <<"a",".","j","p","g">>
      [] n = "B.PNG" -> <<"B",".","P","N","G">>
      [] n = "notes.txt" -> <<"n","o","t","e","s",".","t","x","t">>
      [] n = "readme.txt" -> <<"r","e","a","d","m","e",".","t","x","t">>
      [] OTHER -> <<"o","w","l",".","j","p","g">>

\* addEventNotification(OBJECT_CREATED, ..., { prefix, suffix })
TriggerPrefixes == {<<"u","p","l","o","a","d","s","/">>, <<"p","u","b","l","i","c","/","u","p","l","o","a","d","s","/">>}
ZipSuffix == <<".","z","i","p">>
imageExtensions ==
    {<<".","j","p","g">>,
     <<".","j","p","e","g">>,
     <<".","p","n","g">>,
     <<".","g","i","f">>,
     <<".","b","m","p">>}
TriggerRules == {<<pre, suf>> : pre \in TriggerPrefixes, suf \in {ZipSuffix} \cup imageExtensions}
TriggerMatches(key) ==
    \E rule \in TriggerRules : StartsWith(key, rule[1]) /\ EndsWith(key, rule[2])

\* String lower-casing, for the letters the names use.
LowerOf(ch) ==
    CASE ch = "B" -> "b" [] ch = "P" -> "p" [] ch = "N" -> "n" [] ch = "G" -> "g"
      [] ch = "J" -> "j" [] OTHER -> ch
ToLower(str) == [i \in 1..Len(str) |-> LowerOf(str[i])]

\* The content kind of an artifact, and what an archive holds.
IsArchive(a) == EndsWith(ToLower(ArtifactChars(a)), ZipSuffix)
IsCorrupt(a) == a = "uploads/corrupt.zip"
ArchiveEntries(a) ==
    CASE a = "uploads/batch.zip" -> <<"a.jpg", "B.PNG", "notes.txt">>
      [] a = "uploads/empty.zip" -> <<"readme.txt">>
      [] OTHER -> <<>>
BaseName(a) == "owl.jpg"

\* An entry is an image when its name ends in an accepted extension,
\* whatever the case of its letters.
isImageEntry(n) == \E ext \in imageExtensions : EndsWith(ToLower(EntryChars(n)), ext)

\* Mutant: a corrupt archive is unpacked as an archive without entries.
unpack_corruptAsEmpty(a) ==
    IF ~IsArchive(a) THEN [ok |-> TRUE, names |-> <<BaseName(a)>>]
    ELSE [ok |-> TRUE,
          names |-> IF IsCorrupt(a) THEN <<>> ELSE SelectSeq(ArchiveEntries(a), isImageEntry)]

\* unpack(artifact): the image itself, or the image entries of the archive;
\* CorruptArchive (ok = FALSE) when the container cannot be opened.
unpack(a) ==
    IF ~IsArchive(a) THEN [ok |-> TRUE, names |-> <<BaseName(a)>>]
    ELSE IF IsCorrupt(a) THEN [ok |-> FALSE, names |-> <<>>]
    ELSE [ok |-> TRUE, names |-> SelectSeq(ArchiveEntries(a), isImageEntry)]

NoCount == 0 - 1
NoTable == <<"none", 0>>
PrimaryHeader == <<"itemName", "count">>

NewItem(n) == [name |-> n, st |-> "queued", responses |-> <<>>, count |-> NoCount,
               reason |-> ""]
Settled(item) == item.st \in {"success", "failure"}
InFlight(run) == {i \in 1..Len(run.items) : run.items[i].st = "inflight"}

\* Mutant: throttling is retried once more than the ceiling allows.
outcomeOf_oneMore(responses) ==
    LET last == responses[Len(responses)]
    IN  CASE last = "ok"     -> "success"
          [] last = "reject" -> "failure"
          [] OTHER -> IF Len(responses) >= AttemptCeiling + 1 THEN "failure" ELSE "inflight"

\* The state of an item after the responses so far: a count is a success, a
\* rejection a failure at once, a throttling signal a failure once the
\* attempts reach the ceiling and another attempt (after a backoff) otherwise.
outcomeOf(responses) ==
    LET last == responses[Len(responses)]
    IN  CASE last = "ok"     -> "success"
          [] last = "reject" -> "failure"
          [] OTHER -> IF Len(responses) >= AttemptCeiling THEN "failure" ELSE "inflight"

\* Mutant: the failure of an item fails the run.
pcAfter_failFast(st) == IF st = "failure" THEN "aborted" ELSE "invoke"

\* The run goes on with the other items whatever the outcome of one item.
pcAfter(st) == "invoke"

\* Mutant: a failed item is written with count 0.
rowsOf_zeroFill(run) ==
    [j \in 1..Len(run.done) |->
        <<run.items[run.done[j]].name,
          IF run.items[run.done[j]].st = "success" THEN run.items[run.done[j]].count ELSE 0>>]

\* aggregate(outcomes): the rows of the successes, in the order they completed
rowsOf(run) ==
    LET ok == SelectSeq(run.done, LAMBDA i : run.items[i].st = "success")
    IN  [j \in 1..Len(ok) |-> <<run.items[ok[j]].name, run.items[ok[j]].count>>]

\* The key of a primary table embeds the time of its publication, the
\* discriminator ResultsChecker reads back as the timestamp of the table.
tableKey(time) == <<"primary", time>>

SetRun(b, run) == [runs EXCEPT ![b] = run]

\* The trigger delivers the key of an upload to the function; a key can be
\* delivered more than once.
Deliver(a) ==
    /\ component = "pipeline"
    /\ Len(runs) < MaxBatches
    /\ TriggerMatches(ArtifactChars(a))
    /\ runs' = Append(runs, [artifact |-> a, pc |-> "unpack", items |-> <<>>,
                             done |-> <<>>, table |-> NoTable])
    /\ UNCHANGED <<component, mounted, repeated, storeVars, viewerVars, appVars, checkerVars,
                   uploaderVars, runnerVars, codecVars, enrichVars, tables, nextTable>>

\* The unpacker: a corrupt archive aborts the run.
Unpack(b) ==
    /\ b \in 1..Len(runs) /\ runs[b].pc = "unpack"
    /\ LET u == unpack(runs[b].artifact)
       IN  runs' = SetRun(b, [runs[b] EXCEPT
                        !.pc = IF u.ok THEN "invoke" ELSE "aborted",
                        !.items = [i \in 1..Len(u.names) |-> NewItem(u.names[i])]])
    /\ UNCHANGED <<component, mounted, repeated, storeVars, viewerVars, appVars, checkerVars,
                   uploaderVars, runnerVars, codecVars, enrichVars, tables, nextTable>>

\* The invoker hands a queued item to a free worker.
Dispatch(b, i) ==
    /\ b \in 1..Len(runs) /\ runs[b].pc = "invoke"
    /\ i \in 1..Len(runs[b].items) /\ runs[b].items[i].st = "queued"
    /\ Cardinality(InFlight(runs[b])) < ConcurrencyLimit
    /\ runs' = SetRun(b, [runs[b] EXCEPT !.items[i].st = "inflight"])
    /\ UNCHANGED <<component, mounted, repeated, storeVars, viewerVars, appVars, checkerVars,
                   uploaderVars, runnerVars, codecVars, enrichVars, tables, nextTable>>

\* The counting service answers an attempt at an item: a count, a throttling
\* signal or a rejection.
Respond(b, i, r, c) ==
    /\ b \in 1..Len(runs) /\ runs[b].pc = "invoke"
    /\ i \in 1..Len(runs[b].items) /\ runs[b].items[i].st = "inflight"
    /\ r # "ok" => c = NoCount
    /\ LET responses == Append(runs[b].items[i].responses, r)
           st == outcomeOf(responses)
       IN  runs' = SetRun(b, [runs[b] EXCEPT
                        !.items[i].responses = responses,
                        !.items[i].st = st,
                        !.items[i].count = c,
                        !.items[i].reason =
                            CASE st # "failure" -> ""
                              [] r = "reject" -> "Rejected"
                              [] OTHER -> "Throttled",
                        !.done = IF st = "inflight" THEN @ ELSE Append(@, i),
                        !.pc = pcAfter(st)])
    /\ UNCHANGED <<component, mounted, repeated, storeVars, viewerVars, appVars, checkerVars,
                   uploaderVars, runnerVars, codecVars, enrichVars, tables, nextTable>>

Unsettled(run) == SelectSeq([i \in 1..Len(run.items) |-> i],
                            LAMBDA i : ~Settled(run.items[i]))

\* The deadline of the caller as a soft stop: the items not settled get the
\* outcome Failure{NotAttempted}.
SoftStop(b) ==
    /\ b \in 1..Len(runs) /\ runs[b].pc = "invoke"
    /\ Unsettled(runs[b]) # <<>>
    /\ runs' = SetRun(b, [runs[b] EXCEPT
                    !.items = [i \in 1..Len(@) |->
                                  IF Settled(@[i]) THEN @[i]
                                  ELSE [@[i] EXCEPT !.st = "failure",
                                                    !.reason = "NotAttempted"]],
                    !.done = @ \o Unsettled(runs[b])])
    /\ UNCHANGED <<component, mounted, repeated, storeVars, viewerVars, appVars, checkerVars,
                   uploaderVars, runnerVars, codecVars, enrichVars, tables, nextTable>>

\* Time passes: the clock the executions read goes on by one.
ClockTick ==
    /\ component = "pipeline"
    /\ now < MaxTime
    /\ now' = now + 1
    /\ UNCHANGED <<component, mounted, repeated, store, puts, publishing, viewerVars, appVars,
                   checkerVars, uploaderVars, runnerVars, backendVars>>

\* Mutant: with no success the aggregator ends the run without a table.
Aggregate_skipEmpty(b) ==
    /\ b \in 1..Len(runs) /\ runs[b].pc = "invoke"
    /\ \A i \in 1..Len(runs[b].items) : Settled(runs[b].items[i])
    /\ IF rowsOf(runs[b]) = <<>>
       THEN /\ runs' = SetRun(b, [runs[b] EXCEPT !.pc = "done"])
            /\ UNCHANGED tables
       ELSE /\ tables' = [k \in DOMAIN tables \cup {tableKey(now)} |->
                            IF k = tableKey(now)
                            THEN [header |-> PrimaryHeader, rows |-> rowsOf(runs[b]),
                                  run |-> b]
                            ELSE tables[k]]
            /\ runs' = SetRun(b, [runs[b] EXCEPT !.pc = "done", !.table = tableKey(now)])
    /\ UNCHANGED <<component, mounted, repeated, storeVars, viewerVars, appVars, checkerVars,
                   uploaderVars, runnerVars, codecVars, enrichVars, nextTable>>

\* The aggregator, once every item has an outcome: the table of the
\* successes is put, whole, under the key of the time the execution reads
\* from its clock; executions share nothing, so a put under the key of a
\* table that is there replaces that table.
Aggregate(b) ==
    /\ b \in 1..Len(runs) /\ runs[b].pc = "invoke"
    /\ \A i \in 1..Len(runs[b].items) : Settled(runs[b].items[i])
    /\ tables' = [k \in DOMAIN tables \cup {tableKey(now)} |->
                    IF k = tableKey(now)
                    THEN [header |-> PrimaryHeader, rows |-> rowsOf(runs[b]), run |-> b]
                    ELSE tables[k]]
    /\ runs' = SetRun(b, [runs[b] EXCEPT !.pc = "done", !.table = tableKey(now)])
    /\ UNCHANGED <<component, mounted, repeated, storeVars, viewerVars, appVars, checkerVars,
                   uploaderVars, runnerVars, codecVars, enrichVars, nextTable>>

PipelineInit == runs = <<>> /\ tables = <<>> /\ nextTable = 1

-----------------------------------------------------------------------------
\* The enrichment runner: on its startup it lists the primary tables without
\* an enhanced counterpart, classifies their rows and publishes one enhanced
\* table per primary table.

Categories == {"sparrow", "owl"}
EnhancedHeader == <<"itemName", "count", "category">>
enhancedKey(k) == <<"enhanced", k[2]>>

\* Row sequences of the primary tables the pipeline publishes.
PrimaryRows ==
    {<<>>, << <<"a.jpg", 2>>, <<"B.PNG", 0>> >>, << <<"owl.jpg", 2>> >>}

\* Mutant: the listing takes every primary table.
unenriched_all(tbls) ==
    SelectSeq([n \in 1..MaxBatches |-> tableKey(n)], LAMBDA k : k \in DOMAIN tbls)

\* The primary tables of the results namespace that lack an enhanced table.
unenriched(tbls) ==
    SelectSeq([n \in 1..MaxBatches |-> tableKey(n)],
              LAMBDA k : k \in DOMAIN tbls /\ enhancedKey(k) \notin DOMAIN tbls)

\* Mutant: a row whose classification failed loses its count.
enhancedRow_zeroCount(prow, r) ==
    IF r = "failed" THEN <<prow[1], 0>> ELSE <<prow[1], prow[2], r>>

\* The enhanced row of a primary row: with the category, or passed through
\* when the classification failed.
enhancedRow(prow, r) ==
    IF r = "failed" THEN <<prow[1], prow[2]>> ELSE <<prow[1], prow[2], r>>

WithTable(tbls, k, t) == [x \in DOMAIN tbls \cup {k} |-> IF x = k THEN t ELSE tbls[x]]

EnrIdle == [pc |-> "idle", todo |-> <<>>, cur |-> <<>>, outcomes |-> <<>>,
            atStart |-> <<>>, published |-> <<>>]

\* The execution environment of the runner starts: configuration, listing.
RunnerStart ==
    /\ component = "enricher"
    /\ enr.pc \in {"idle", "stopped", "completed"}
    /\ enrStarts < MaxStartups
    /\ enrStarts' = enrStarts + 1
    /\ enr' = [pc |-> "enrich", todo |-> unenriched(tables), cur |-> <<>>,
               outcomes |-> <<>>, atStart |-> tables, published |-> <<>>]
    /\ UNCHANGED <<component, mounted, repeated, storeVars, viewerVars, appVars, checkerVars,
                   uploaderVars, runnerVars, codecVars, pipelineVars, enrLog>>

\* The classification service answers for the next row of the table at hand.
Classify(r) ==
    /\ enr.pc = "enrich" /\ enr.todo # <<>>
    /\ Len(enr.cur) < Len(tables[Head(enr.todo)].rows)
    /\ LET prow == tables[Head(enr.todo)].rows[Len(enr.cur) + 1]
       IN  enr' = [enr EXCEPT !.cur = Append(@, enhancedRow(prow, r)),
                              !.outcomes = Append(@, r)]
    /\ UNCHANGED <<component, mounted, repeated, storeVars, viewerVars, appVars, checkerVars,
                   uploaderVars, runnerVars, codecVars, pipelineVars, enrLog, enrStarts>>

\* Every row of the table at hand was attempted: the enhanced table is put.
PublishEnhanced ==
    /\ enr.pc = "enrich" /\ enr.todo # <<>>
    /\ Len(enr.cur) = Len(tables[Head(enr.todo)].rows)
    /\ tables' = WithTable(tables, enhancedKey(Head(enr.todo)),
                           [header |-> EnhancedHeader, rows |-> enr.cur, run |-> 0])
    /\ enrLog' = WithTable(enrLog, enhancedKey(Head(enr.todo)), enr.outcomes)
    /\ enr' = [enr EXCEPT !.todo = Tail(@), !.cur = <<>>, !.outcomes = <<>>,
                          !.published = Append(@, enhancedKey(Head(enr.todo)))]
    /\ UNCHANGED <<component, mounted, repeated, storeVars, viewerVars, appVars, checkerVars,
                   uploaderVars, runnerVars, codecVars, runs, nextTable, enrStarts>>

\* No table is left: the runner ends.
RunnerComplete ==
    /\ enr.pc = "enrich" /\ enr.todo = <<>>
    /\ enr' = [enr EXCEPT !.pc = "completed"]
    /\ UNCHANGED <<component, mounted, repeated, storeVars, viewerVars, appVars, checkerVars,
                   uploaderVars, runnerVars, codecVars, pipelineVars, enrLog, enrStarts>>

\* Mutant: a runner that is stopped puts the rows it has.
RunnerStop_flush ==
    /\ enr.pc = "enrich" /\ enr.todo # <<>>
    /\ tables' = WithTable(tables, enhancedKey(Head(enr.todo)),
                           [header |-> EnhancedHeader, rows |-> enr.cur, run |-> 0])
    /\ enrLog' = WithTable(enrLog, enhancedKey(Head(enr.todo)), enr.outcomes)
    /\ enr' = [enr EXCEPT !.pc = "stopped", !.cur = <<>>, !.outcomes = <<>>]
    /\ UNCHANGED <<component, mounted, repeated, storeVars, viewerVars, appVars, checkerVars,
                   uploaderVars, runnerVars, codecVars, runs, nextTable, enrStarts>>

\* The runner exits early (crash, stop, timeout): what it holds in memory is
\* lost.
RunnerStop ==
    /\ enr.pc = "enrich" /\ enr.todo # <<>>
    /\ enr' = [enr EXCEPT !.pc = "stopped", !.cur = <<>>, !.outcomes = <<>>]
    /\ UNCHANGED <<component, mounted, repeated, storeVars, viewerVars, appVars, checkerVars,
                   uploaderVars, runnerVars, codecVars, pipelineVars, enrLog, enrStarts>>

\* The pipeline publishes another primary table while the runner is at work.
PrimaryArrives(rows) ==
    /\ component = "enricher"
    /\ nextTable <= MaxBatches
    /\ tables' = WithTable(tables, tableKey(nextTable),
                           [header |-> PrimaryHeader, rows |-> rows, run |-> 0])
    /\ nextTable' = nextTable + 1
    /\ UNCHANGED <<component, mounted, repeated, storeVars, viewerVars, appVars, checkerVars,
                   uploaderVars, runnerVars, codecVars, runs, enrichVars>>

EnricherInit == enr = EnrIdle /\ enrLog = <<>> /\ enrStarts = 0

-----------------------------------------------------------------------------
\* A primary table written as text by the aggregator and read back by the
\* parser of ResultsChecker.

\* Item names (of uploaded files, of archive entries) and counts.
ItemNames == {<<"a",".","j","p","g">>, <<"B",".","P","N","G">>, <<"a",",","b",".","j","p","g">>}
ItemCounts == {0, 2, 10}

\* The decimal digits of a count.
RECURSIVE DecimalOf(_)
DecimalOf(n) ==
    IF n < 10 THEN <<Digits[n + 1]>> ELSE DecimalOf(n \div 10) \o <<Digits[(n % 10) + 1]>>

\* Delimited text: the header row itemName,count and one data row per row.
RECURSIVE serializeRows(_)
serializeRows(rows) ==
    IF rows = <<>> THEN <<>>
    ELSE Head(rows)[1] \o <<",">> \o DecimalOf(Head(rows)[2]) \o <<"\n">>
         \o serializeRows(Tail(rows))
serialize(rows) == HeaderChars \o <<"\n">> \o serializeRows(rows)

\* for (const line of dataLines) { const [filename, birdCount] = line.split(',')
\*   if (filename && birdCount) ... parseInt(birdCount) || 0 ... }
parsedPairs(dataLines) ==
    LET counted == SelectSeq(dataLines, CountsRow)
    IN  [j \in 1..Len(counted) |->
            <<Split(counted[j], ",")[1], parseIntOr0(Split(counted[j], ",")[2])>>]

\* What checkForResults makes of the text of one file: nothing when it has
\* no data line, else the pairs, their number and the sum of the counts.
NoReport == [skipped |-> TRUE, pairs |-> <<>>, fileCount |-> 0, totalBirds |-> Zero]
parseCsv(csvText) ==
    LET lines == linesOf(csvText)
    IN  IF Len(lines) < 2 THEN NoReport
        ELSE [skipped |-> FALSE,
              pairs |-> parsedPairs(Tail(lines)),
              fileCount |-> fileCount(Tail(lines)),
              totalBirds |-> totalBirds(Tail(lines))]

CodecIdle == [pc |-> "table", rows |-> <<>>, text |-> <<>>, report |-> NoReport]

\* The aggregator writes the table as text.
Serialize ==
    /\ component = "codec" /\ codec.pc = "table"
    /\ codec' = [codec EXCEPT !.pc = "text", !.text = serialize(codec.rows)]
    /\ UNCHANGED <<component, mounted, repeated, storeVars, viewerVars, appVars, checkerVars,
                   uploaderVars, runnerVars, pipelineVars, enrichVars>>

\* checkForResults reads the text.
ParseText ==
    /\ component = "codec" /\ codec.pc = "text"
    /\ codec' = [codec EXCEPT !.pc = "parsed", !.report = parseCsv(codec.text)]
    /\ UNCHANGED <<component, mounted, repeated, storeVars, viewerVars, appVars, checkerVars,
                   uploaderVars, runnerVars, pipelineVars, enrichVars>>

CodecInit == codec = CodecIdle

-----------------------------------------------------------------------------
UploaderInit ==
    /\ selectedFiles = <<>> /\ uploadProgress = {} /\ uploadedFiles = <<>>
    /\ uploadCalls = <<>> /\ batches = <<>> /\ uploads = <<>> /\ msClock = 0

RunnerInit ==
    /\ lifecycleScript = NoScript /\ sagemakerModelName = Undefined
    /\ bucketScript = 0 /\ localScript = 0 /\ rootScript = 0 /\ shells = <<>>
    /\ configFile = <<>> /\ configRun = 0
    /\ runPc = "stopped" /\ startups = 0 /\ fetchOk = "pending" /\ ranScript = 0
    /\ lifecycleLog = <<>> /\ subshellExit = 0 /\ exitStatus = "none"

FrontendInit ==
    /\ UploaderInit /\ RunnerInit
    /\ mounted = FALSE /\ repeated = FALSE
    /\ csvFiles = <<>> /\ loading = TRUE /\ error = NULL
    /\ loads = [i \in 1..MaxLoads |-> IdleSlot] /\ csvFresh = FALSE
    /\ enhancedCSVs = <<>> /\ isProcessing = FALSE
    /\ polls = [i \in 1..MaxLoads |-> PollIdle] /\ timers = 0 /\ appFresh = FALSE
    /\ isChecking = FALSE /\ lastCheck = 0
    /\ checks = [i \in 1..MaxLoads |-> CheckIdle]
    /\ intervalOn = FALSE /\ closureIsChecking = FALSE
    /\ reported = <<>> /\ reportCount = 0
    /\ reportInfo = [fresh |-> FALSE, clean |-> TRUE, failed |-> {}]

ClientInit ==
    /\ PipelineInit /\ EnricherInit /\ CodecInit
    /\ FrontendInit

StoreInit == store = <<>> /\ now = 1 /\ puts = 0 /\ publishing = NoKey

Init ==
    /\ component \in {"viewer", "app", "checker"}
    /\ StoreInit
    /\ ClientInit

Publish ==
    \/ \E k \in ResultKeys : PublishBegin(k)
    \/ \E b \in {HeaderOnlyCsv, OneRowCsv, EnhancedCsv}, dt \in {0, 1} : PublishEnd(b, dt)

Viewer ==
    \/ ViewerMount
    \/ ViewerInterval
    \/ \E l \in 1..MaxLoads : LoadCSVFilesListed(l)
    \/ \E l \in 1..MaxLoads : LoadCSVFilesListFailed(l)
    \/ \E l \in 1..MaxLoads : \E f \in SUBSET ResultKeys : LoadCSVFilesDone(l, f)

App ==
    \/ AppMount
    \/ handleFileUpload
    \/ AppTimeout
    \/ \E p \in 1..MaxLoads : PollForResultsListed(p)
    \/ \E p \in 1..MaxLoads : PollForResultsFailed(p)
    \/ \E p \in 1..MaxLoads : PollForResultsDone(p)

Checker ==
    \/ CheckerMount
    \/ CheckerProcessingStarts
    \/ CheckerProcessingStops
    \/ CheckerInterval
    \/ handleManualCheck
    \/ \E c \in 1..MaxLoads : CheckForResultsListed(c)
    \/ \E c \in 1..MaxLoads : CheckForResultsListFailed(c)
    \/ \E c \in 1..MaxLoads, ok \in BOOLEAN : CheckForResultsDownload(c, ok)
    \/ \E c \in 1..MaxLoads, ok \in BOOLEAN : CheckForResultsText(c, ok)
    \/ \E c \in 1..MaxLoads, ok \in BOOLEAN : CheckForResultsFile(c, ok)

Next == Publish \/ Viewer \/ App \/ Checker

Spec == Init /\ [][Next]_vars


\* The viewer alone, with the scheduling the claim assumes: the interval keeps
\* firing, listings succeed again and again, getUrl calls settle.
ViewerInit ==
    /\ component = "viewer"
    /\ StoreInit
    /\ ClientInit

ViewerNext == Publish \/ Viewer

ViewerLiveSpec ==
    /\ ViewerInit /\ [][ViewerNext]_vars
    /\ WF_vars(ViewerMount)
    /\ WF_vars(ViewerInterval)
    /\ SF_vars(\E l \in 1..MaxLoads : LoadCSVFilesListed(l))
    /\ WF_vars(\E l \in 1..MaxLoads : \E f \in SUBSET ResultKeys : LoadCSVFilesDone(l, f))

----------------------------------------------------------------------------
\* The upload form inside the app, with an empty results namespace.
UploadInit ==
    /\ component = "app"
    /\ StoreInit
    /\ ClientInit

Uploader ==
    \/ \E files \in Drops : handleFiles(files)
    \/ handleUpload
    \/ \E u \in 1..(2 * MaxSubmits) : UploadDataProgress(u)
    \/ \E u \in 1..(2 * MaxSubmits) : UploadDataDone(u)
    \/ \E u \in 1..(2 * MaxSubmits) : UploadDataFailed(u)
    \/ \E b \in 1..MaxSubmits : handleUploadDone(b)
    \/ \E b \in 1..MaxSubmits : handleUploadFailed(b)

UploadNext ==
    \/ Uploader
    \/ AppMount
    \/ AppTimeout
    \/ \E p \in 1..MaxLoads : PollForResultsListed(p)
    \/ \E p \in 1..MaxLoads : PollForResultsFailed(p)
    \/ \E p \in 1..MaxLoads : PollForResultsDone(p)

UploadSpec == UploadInit /\ [][UploadNext]_vars

\* The notebook instance over deployments, uploads of the script and starts.
LifecycleInit ==
    /\ component = "runner"
    /\ StoreInit
    /\ ClientInit

LifecycleNext ==
    \/ \E m \in EnvValues, r \in EnvValues : createSageMakerNotebook(m, r)
    \/ \E v \in ScriptVersions : UploadScript(v)
    \/ NotebookStart
    \/ Skip
    \/ RedirectLog
    \/ Echo
    \/ SubShell
    \/ ChangeDirectory
    \/ WriteConfig
    \/ \E ok \in BOOLEAN : FetchScript(ok)
    \/ CheckScript
    \/ ExitShell
    \/ RunScript
    \/ \E code \in {0, 1} : ScriptExits(code)
    \/ NotFound
    \/ SubShellEnds
    \/ LifecycleEnd
    \/ NotebookStop

LifecycleSpec == LifecycleInit /\ [][LifecycleNext]_vars

\* The upload pipeline over deliveries of upload keys.
PipelineStart ==
    /\ component = "pipeline"
    /\ StoreInit
    /\ ClientInit

PipelineNext ==
    \/ \E a \in Artifacts : Deliver(a)
    \/ \E b \in 1..MaxBatches : Unpack(b)
    \/ \E b \in 1..MaxBatches, i \in 1..2 : Dispatch(b, i)
    \/ \E b \in 1..MaxBatches, i \in 1..2 :
          \E r \in {"ok", "throttle", "reject"}, c \in Counts \cup {NoCount} : Respond(b, i, r, c)
    \/ \E b \in 1..MaxBatches : SoftStop(b)
    \/ \E b \in 1..MaxBatches : Aggregate(b)
    \/ ClockTick

PipelineSpec == PipelineStart /\ [][PipelineNext]_vars

\* The enrichment runner over results namespaces the pipeline has filled:
\* up to MaxBatches primary tables, some of them enriched by an earlier
\* startup.
EnrichedBefore(rows) == [j \in 1..Len(rows) |-> enhancedRow(rows[j], "sparrow")]
StoreOf(prim, done) ==
    [k \in {tableKey(n) : n \in DOMAIN prim} \cup {enhancedKey(tableKey(n)) : n \in done} |->
        IF k[1] = "primary"
        THEN [header |-> PrimaryHeader, rows |-> prim[k[2]], run |-> 0]
        ELSE [header |-> EnhancedHeader, rows |-> EnrichedBefore(prim[k[2]]), run |-> 0]]
EnrichStart ==
    /\ component = "enricher"
    /\ StoreInit
    /\ FrontendInit
    /\ runs = <<>>
    /\ enr = EnrIdle /\ enrStarts = 0
    /\ CodecInit
    /\ \E np \in 0..MaxBatches :
          \E prim \in [1..np -> PrimaryRows], done \in SUBSET (1..np) :
              /\ nextTable = np + 1
              /\ tables = StoreOf(prim, done)
              /\ enrLog = [k \in {enhancedKey(tableKey(n)) : n \in done} |->
                              [j \in 1..Len(prim[k[2]]) |-> "sparrow"]]

EnrichNext ==
    \/ RunnerStart
    \/ \E r \in Categories \cup {"failed"} : Classify(r)
    \/ PublishEnhanced
    \/ RunnerComplete
    \/ RunnerStop
    \/ \E rows \in PrimaryRows : PrimaryArrives(rows)

EnrichSpec == EnrichStart /\ [][EnrichNext]_vars

\* A table of up to MaxRows rows, serialized and parsed.
RowsUpTo(n) == UNION {[1..m -> ItemNames \X ItemCounts] : m \in 0..n}
RoundTripInit ==
    /\ component = "codec"
    /\ StoreInit
    /\ FrontendInit /\ PipelineInit /\ EnricherInit
    /\ \E rows \in RowsUpTo(MaxRows) : codec = [CodecIdle EXCEPT !.rows = rows]

RoundTripNext == Serialize \/ ParseText

RoundTripSpec == RoundTripInit /\ [][RoundTripNext]_vars

\* ResultsChecker over a results namespace that holds the primary tables of
\* earlier batches, one more than a check processes, and an object that is
\* no '.csv' file.
BacklogTimes == {<<1, 2, 3, 4, 5, 6>>, <<6, 5, 4, 3, 2, 1>>, <<3, 1, 3, 2, 6, 3>>}
BacklogBodies ==
    {[i \in 1..Len(BacklogKeys) |-> OneRowCsv],
     [i \in 1..Len(BacklogKeys) |-> IF i = 2 THEN HeaderOnlyCsv ELSE OneRowCsv]}
BacklogStore(times, bodies) ==
    [k \in Range(BacklogKeys) \cup {KeyOrder[Len(KeyOrder)]} |->
        IF k = KeyOrder[Len(KeyOrder)]
        THEN [lastModified |-> Len(BacklogKeys) + 1, body |-> EnhancedCsv]
        ELSE LET i == CHOOSE j \in 1..Len(BacklogKeys) : BacklogKeys[j] = k
             IN  [lastModified |-> times[i], body |-> bodies[i]]]
RecentInit ==
    /\ component = "checker"
    /\ now = 1 /\ puts = 0 /\ publishing = NoKey
    /\ \E times \in BacklogTimes, bodies \in BacklogBodies :
          store = BacklogStore(times, bodies)
    /\ ClientInit

RecentNext ==
    \/ CheckerMount
    \/ handleManualCheck
    \/ \E c \in 1..MaxLoads : CheckForResultsListed(c)
    \/ \E c \in 1..MaxLoads : CheckForResultsListFailed(c)
    \/ \E c \in 1..MaxLoads, ok \in BOOLEAN : CheckForResultsDownload(c, ok)
    \/ \E c \in 1..MaxLoads, ok \in BOOLEAN : CheckForResultsText(c, ok)
    \/ \E c \in 1..MaxLoads, ok \in BOOLEAN : CheckForResultsFile(c, ok)

RecentSpec == RecentInit /\ [][RecentNext]_vars

-----------------------------------------------------------------------------
\* Claims.

MatchesEnhancedPattern(k) ==
    Includes(KeyChars(k), EnhancedMarker) /\ EndsWith(KeyChars(k), CsvSuffix)

EnhancedKeys == {k \in ResultKeys : MatchesEnhancedPattern(k)}


\* The (key, last-modified) pairs of the listing of the current store that
\* match the enhanced-table pattern.
ListedMatching ==
    {<<it.path, it.lastModified>> :
        it \in {x \in Range(ListItems(store, ResultsPrefix)) : MatchesEnhancedPattern(x.path)}}

NewestFirst(seq) ==
    \A i, j \in 1..Len(seq) : i < j => seq[i].lastModified >= seq[j].lastModified

ViewerEntries(seq) == [i \in 1..Len(seq) |-> <<seq[i].path, seq[i].lastModified>>]
AppEntries(seq)    == [i \in 1..Len(seq) |-> <<seq[i].key, seq[i].lastModified>>]

\* C1: a discovery call (loadCSVFiles, pollForResults) that completes yields
\* exactly the listed entries whose key contains 'enhanced_bird_results' and
\* ends with '.csv', each once, ordered by non-increasing last-modified time.
C1_DiscoveryExactNewestFirst ==
    [][ /\ \A l \in 1..MaxLoads :
            /\ (loads[l].pc = "list" /\ loads'[l].pc = "urls")
                  => /\ Range(ViewerEntries(loads'[l].items)) = ListedMatching
                     /\ Len(loads'[l].items) = Cardinality(ListedMatching)
            /\ (loads[l].pc = "urls" /\ loads'[l].pc = "idle")
                  => /\ Range(ViewerEntries(csvFiles')) = Range(ViewerEntries(loads[l].items))
                     /\ Len(csvFiles') = Len(loads[l].items)
                     /\ NewestFirst(csvFiles')
        /\ \A p \in 1..MaxLoads :
            /\ (polls[p].pc = "list" /\ polls'[p].pc = "urls")
                  => /\ Range(ViewerEntries(polls'[p].items)) = ListedMatching
                     /\ Len(polls'[p].items) = Cardinality(ListedMatching)
            /\ PollForResultsDone(p)
                  => /\ Range(AppEntries(enhancedCSVs')) = Range(ViewerEntries(polls[p].items))
                     /\ Len(enhancedCSVs') = Len(polls[p].items)
                     /\ NewestFirst(enhancedCSVs')
      ]_vars

\* C1 witness: the viewer holds both enhanced tables, the later key first
\* because it is the newer one (the sort changed the listing order).
C1_Witness ==
    /\ Len(csvFiles) = 2
    /\ csvFiles[1].path = "public/results/enhanced_bird_results_2.csv"
    /\ csvFiles[2].path = "public/results/enhanced_bird_results_1.csv"
    /\ csvFiles[1].lastModified > csvFiles[2].lastModified

\* C2: under ViewerLiveSpec every published enhanced table is eventually in
\* csvFiles, and csvFiles never holds a key whose put has not completed.
C2_PublishedEventuallyShown ==
    /\ \A k \in EnhancedKeys : [](k \in DOMAIN store => <>(k \in PathsOf(csvFiles)))
    /\ [](PathsOf(csvFiles) \subseteq DOMAIN store)

\* C2 witness: a table is shown while another table's put is still in flight
\* and not shown.
C2_Witness ==
    /\ PathsOf(csvFiles) # {}
    /\ publishing \in EnhancedKeys
    /\ publishing \notin DOMAIN store
    /\ publishing \notin PathsOf(csvFiles)


\* What a client component holds, without the history fields of the model.
SlotState(slots) ==
    [i \in DOMAIN slots |->
        <<slots[i].pc, slots[i].items, slots[i].idx, slots[i].body, slots[i].results>>]
LoadState(slots) == [i \in DOMAIN slots |-> <<slots[i].pc, slots[i].items>>]
ClientState ==
    <<csvFiles, loading, error, LoadState(loads),
      enhancedCSVs, isProcessing, LoadState(polls), timers,
      isChecking, lastCheck, SlotState(checks), intervalOn, closureIsChecking,
      reported, reportCount>>

ReportedKeys == [i \in 1..Len(reported) |-> reported[i].csvKey]

\* C3 as stated: two discovery calls with no put between them return the same
\* entries (key, last-modified) in the same order.
C3_SameResultsWithoutPublish ==
    [][ /\ \A l \in 1..MaxLoads :
              (loads[l].pc = "urls" /\ loads'[l].pc = "idle" /\ loads[l].fresh /\ csvFresh)
                 => ViewerEntries(csvFiles') = ViewerEntries(csvFiles)
        /\ \A p \in 1..MaxLoads :
              (PollForResultsDone(p) /\ polls[p].fresh /\ appFresh)
                 => AppEntries(enhancedCSVs') = AppEntries(enhancedCSVs)
        /\ (reportCount' # reportCount /\ reportInfo.fresh /\ reportInfo'.fresh)
                 => ReportedKeys' = ReportedKeys
      ]_vars

\* The keys of the files left out of a report: the files at the places
\* failed of the five most recent '.csv' objects of the store.
OmittedKeys(failed) ==
    LET files == recentFiles(SortNewestFirst(SelectSeq(ListItems(store, ResultsPrefix), isCSV)))
    IN  {files[i].path : i \in failed \cap (1..Len(files))}

\* The entries of a report without those of the keys omitted, in their
\* order; the signed URL of an entry is not part of it.
EntriesWithout(results, omitted) ==
    LET kept == SelectSeq(results, LAMBDA r : r.csvKey \notin omitted)
    IN  [i \in 1..Len(kept) |->
            <<kept[i].csvKey, kept[i].timestamp, kept[i].filename, kept[i].birdCount>>]

\* C3 amended: as C3 for loadCSVFiles and pollForResults; two reports of
\* checkForResults with no put between them hold the same entries in the same
\* order up to the files omitted: the entries of every file whose download and
\* getUrl failed in neither call are equal, whatever failed in either call.
C3_SameResultsUpToOmittedFiles ==
    [][ /\ \A l \in 1..MaxLoads :
              (loads[l].pc = "urls" /\ loads'[l].pc = "idle" /\ loads[l].fresh /\ csvFresh)
                 => ViewerEntries(csvFiles') = ViewerEntries(csvFiles)
        /\ \A p \in 1..MaxLoads :
              (PollForResultsDone(p) /\ polls[p].fresh /\ appFresh)
                 => AppEntries(enhancedCSVs') = AppEntries(enhancedCSVs)
        /\ (reportCount' # reportCount /\ reportInfo.fresh /\ reportInfo'.fresh)
                 => LET omitted == OmittedKeys(reportInfo.failed \cup reportInfo'.failed)
                    IN  EntriesWithout(reported', omitted) = EntriesWithout(reported, omitted)
      ]_vars

\* C3 witness: a check reported on the store the check before it reported
\* on, with one file left out for a failure and another file's entry kept.
C3_Witness ==
    /\ component = "checker" /\ repeated /\ reportInfo.fresh
    /\ reportInfo.failed # {}
    /\ EntriesWithout(reported, OmittedKeys(reportInfo.failed)) # <<>>

\* C4: a step of a discovery operation leaves the object store, and the put
\* in flight, as they are.
C4_DiscoveryNeverWrites ==
    [][ClientState' # ClientState => (store' = store /\ publishing' = publishing /\ puts' = puts)]_vars

\* C4 witness: a check has reported a table of a non-empty store.
C4_Witness == reported # <<>> /\ store # <<>>

NoTableListed(slot) == slot.pc = "urls" /\ slot.items = <<>>
NoCsvInStore == \A k \in DOMAIN store : ~EndsWith(KeyChars(k), CsvSuffix)

\* C5 as stated: with no matching table the viewer's load ends with
\* csvFiles = [] and error = null, and the checker reports onResultsFound([]).
C5_EmptyNamespaceNoError ==
    [][ /\ \A l \in 1..MaxLoads :
              (NoTableListed(loads[l]) /\ loads'[l].pc = "idle")
                 => (csvFiles' = <<>> /\ error' = NULL)
        /\ \A c \in 1..MaxLoads :
              (CheckForResultsListed(c) /\ NoCsvInStore)
                 => (reported' = <<>> /\ reportCount' # reportCount)
      ]_vars

\* C5 amended: the load ends with csvFiles = [] and sets no error itself: error
\* is null unless the listing of an overlapping load failed after this load
\* started; the checker reports onResultsFound([]).
C5_EmptyNamespaceSetsNoError ==
    [][ /\ \A l \in 1..MaxLoads :
              (NoTableListed(loads[l]) /\ loads'[l].pc = "idle")
                 => /\ csvFiles' = <<>>
                    /\ error' = error
                    /\ (error' = NULL \/ loads[l].errorSet)
        /\ \A c \in 1..MaxLoads :
              (CheckForResultsListed(c) /\ NoCsvInStore)
                 => (reported' = <<>> /\ reportCount' # reportCount)
      ]_vars

\* C5 witness: the viewer has loaded a namespace without an enhanced table.
C5_Witness ==
    /\ csvFresh /\ ~loading
    /\ DOMAIN store \cap EnhancedKeys = {}
    /\ csvFiles = <<>> /\ error = NULL

\* C6 as stated: every entry that discovery holds carries a download URL.
C6_EveryEntryHasUrl ==
    /\ \A i \in 1..Len(csvFiles) : csvFiles[i].downloadUrl # NoUrl
    /\ \A i \in 1..Len(enhancedCSVs) : enhancedCSVs[i].downloadUrl # NoUrl

\* C6 amended: every entry carries the key and last-modified time of a stored
\* object; every entry of pollForResults carries its download URL; an entry of
\* the viewer carries its download URL unless its getUrl failed, and then it
\* is returned without one.
C6_EntriesAndUrls ==
    /\ [](/\ \A i \in 1..Len(enhancedCSVs) :
                /\ enhancedCSVs[i].key \in DOMAIN store
                /\ enhancedCSVs[i].lastModified \in 1..now
                /\ enhancedCSVs[i].downloadUrl = UrlOf(enhancedCSVs[i].key)
          /\ \A i \in 1..Len(csvFiles) :
                /\ csvFiles[i].path \in DOMAIN store
                /\ csvFiles[i].lastModified \in 1..now)
    /\ [][\A l \in 1..MaxLoads : \A f \in SUBSET ResultKeys :
             LoadCSVFilesDone(l, f)
                => /\ PathsOf(csvFiles') = PathsOf(loads[l].items)
                   /\ \A i \in 1..Len(csvFiles') :
                         csvFiles'[i].downloadUrl =
                            IF csvFiles'[i].path \in f THEN NoUrl
                            ELSE UrlOf(csvFiles'[i].path)]_vars

\* C6 witness: the viewer holds an entry without a download URL beside one with.
C6_Witness ==
    /\ \E i \in 1..Len(csvFiles) : csvFiles[i].downloadUrl = NoUrl
    /\ \E i \in 1..Len(csvFiles) : csvFiles[i].downloadUrl # NoUrl

HeaderOnlyTables ==
    {k \in DOMAIN store :
        /\ EndsWith(KeyChars(k), CsvSuffix)
        /\ ~Includes(KeyChars(k), EnhancedMarker)
        /\ Len(linesOf(BodyChars(store[k].body))) = 1}

\* C7: once a discovery call has completed on the current store contents with
\* no failure, every header-only primary table of the results namespace has
\* an entry in what the client was given.
C7_HeaderOnlyTableReported ==
    /\ (reportInfo.fresh /\ reportInfo.clean)
          => \A k \in HeaderOnlyTables : \E i \in 1..Len(reported) : reported[i].csvKey = k
    /\ csvFresh => HeaderOnlyTables \subseteq PathsOf(csvFiles)
    /\ appFresh => \A k \in HeaderOnlyTables :
                      \E i \in 1..Len(enhancedCSVs) : enhancedCSVs[i].key = k


\* C8: the uploadToS3 calls have keys distinct from one another, and every
\* completed upload is still the object stored under its key.
C8_UploadKeysDistinct ==
    /\ \A i \in 1..Len(uploadCalls) : \A j \in 1..Len(uploadCalls) :
          i # j => uploadCalls[i].key # uploadCalls[j].key
    /\ \A i \in 1..Len(uploadCalls) :
          uploadCalls[i].pc = "done" => uploads[uploadCalls[i].key] = uploadCalls[i].file

\* The log holds the line a message makes, and nothing else on that line.
Logged(message) == \E i \in 1..Len(lifecycleLog) : lifecycleLog[i] = <<message>>

\* C9: in a startup whose fetch of the processing script failed, no processing
\* script is run and the lifecycle script does not end reporting completion
\* (the COMPLETED line, exit status 0).
C9_FetchFailureFailsFast ==
    fetchOk = "failed" =>
        /\ ranScript = 0
        /\ ~Logged(Completed)
        /\ exitStatus # "0"

\* C10: whenever the processing script is executing, config.json was written
\* in this startup and is the configuration of the deployment: bucket_name is
\* the bucket, model_name the model of the deployment, and no placeholder is
\* left in it.
C10_ConfigWrittenBeforeScript ==
    runPc = "running" =>
        /\ configRun = startups
        /\ JSONmember(configFile, "bucket_name") = BucketName
        /\ JSONmember(configFile, "model_name") = sagemakerModelName
        /\ \A i \in 1..Len(configFile) :
              configFile[i] \notin {"CONFIG_JSON_PLACEHOLDER", "BUCKET_NAME_PLACEHOLDER"}

\* C11: no step deletes or overwrites an object: every key of the uploads
\* namespace and of the results namespace stays, with the content it had.
C11_StoreOnlyGrows ==
    [][ /\ \A k \in DOMAIN uploads :
              k \in DOMAIN uploads' /\ uploads'[k] = uploads[k]
        /\ \A k \in DOMAIN store :
              k \in DOMAIN store' /\ store'[k] = store[k]
      ]_vars

\* Executions of the pipeline that ran to the end, and the items that
\* succeeded in one.
DoneRuns == {b \in 1..Len(runs) : runs[b].pc = "done"}
Successes(run) == {i \in 1..Len(run.items) : run.items[i].st = "success"}
Failures(run) == {i \in 1..Len(run.items) : run.items[i].st = "failure"}

\* The executions that publish in a step.
Publishing == DoneRuns' \ DoneRuns

AllItems == UNION {{runs[b].items[i] : i \in 1..Len(runs[b].items)} : b \in 1..Len(runs)}
RECURSIVE LeadingThrottles(_)
LeadingThrottles(responses) ==
    IF responses = <<>> \/ Head(responses) # "throttle" THEN 0
    ELSE 1 + LeadingThrottles(Tail(responses))

\* C13: an item throttled R times and then counted is a Success after exactly
\* R+1 attempts, which the ceiling allows; an item throttled as many times as
\* the ceiling allows attempts is a Failure and is not attempted again; a
\* rejection is a Failure with no attempt after it, after exactly one attempt
\* when it answers the first.
C13_RetryThenOutcome ==
    \A item \in AllItems :
        LET n == Len(item.responses)
            R == LeadingThrottles(item.responses)
        IN  n > 0 =>
              /\ n <= AttemptCeiling
              /\ \A j \in 1..(n - 1) : item.responses[j] = "throttle"
              /\ item.responses[n] = "ok" =>
                    item.st = "success" /\ n = R + 1 /\ R < AttemptCeiling
              /\ item.responses[n] = "reject" =>
                    item.st = "failure" /\ n = R + 1 /\ item.reason = "Rejected"
              /\ R >= AttemptCeiling =>
                    item.st = "failure" /\ n = AttemptCeiling /\ item.reason = "Throttled"
              /\ item.st = "success" <=> item.responses[n] = "ok"

\* One item was counted at its second attempt, one was throttled up to the
\* ceiling, one was rejected at its first attempt.
C13_Witness ==
    /\ \E item \in AllItems :
          item.st = "success" /\ item.responses = <<"throttle", "ok">>
    /\ \E item \in AllItems :
          item.st = "failure" /\ item.responses = [j \in 1..AttemptCeiling |-> "throttle"]
    /\ \E item \in AllItems :
          item.st = "failure" /\ item.responses = <<"reject">>

\* C14: every item of a batch gets exactly one outcome; a failed item (rejected,
\* or throttled up to the ceiling) neither stops the run, which aborts only on
\* a corrupt archive, nor keeps a queued item from being dispatched.
C14_OneOutcomePerItem ==
    \A b \in 1..Len(runs) :
        LET run == runs[b]
            n == Len(run.items)
        IN  /\ \A i \in 1..n :
                  Cardinality({j \in 1..Len(run.done) : run.done[j] = i})
                      = IF Settled(run.items[i]) THEN 1 ELSE 0
            /\ run.pc = "done" => Len(run.done) = n
            /\ run.pc = "aborted" => IsCorrupt(run.artifact) /\ n = 0
            /\ \A i \in 1..n :
                  (/\ run.pc # "done"
                   /\ run.items[i].st = "queued"
                   /\ Cardinality(InFlight(run)) < ConcurrencyLimit)
                  => ENABLED Dispatch(b, i)

\* A run ended with a table although its first item had failed after
\* exhausting the retries; the second item was counted after that.
C14_Witness ==
    \E b \in DoneRuns :
        /\ runs[b].done = <<1, 2>>
        /\ runs[b].items[1].st = "failure" /\ runs[b].items[1].reason = "Throttled"
        /\ runs[b].items[2].st = "success"
        /\ runs[b].table \in DOMAIN tables

\* The keys of the tables in the store that an execution has put.
TablesOf(b) == {k \in DOMAIN tables : tables[k].run = b}

C17_CorruptArchivePublishesNothing ==
    \A b \in 1..Len(runs) :
        (IsCorrupt(runs[b].artifact) /\ runs[b].pc # "unpack") =>
            /\ runs[b].pc = "aborted"
            /\ runs[b].items = <<>> /\ runs[b].done = <<>>
            /\ runs[b].table = NoTable
            /\ TablesOf(b) = {}
            /\ ~ENABLED Aggregate(b)
            /\ \A i \in 1..2 : ~ENABLED Dispatch(b, i)

\* A corrupt archive was delivered and its execution aborted, next to an
\* execution that published its table.
C17_Witness ==
    \E b1, b2 \in 1..Len(runs) :
        /\ IsCorrupt(runs[b1].artifact) /\ runs[b1].pc = "aborted"
        /\ runs[b2].pc = "done"
        /\ DOMAIN tables = {runs[b2].table}

\* The enhanced tables of the store, and what a client can see of a primary
\* table.
EnhancedTables == {k \in DOMAIN tables : k[1] = "enhanced"}
primaryKey(k) == <<"primary", k[2]>>
TableState(k) == IF enhancedKey(k) \in DOMAIN tables THEN "Enriched" ELSE "Pending"

\* C18: an enhanced table in the store has a primary table and one row for
\* each of its rows; a table the runner has listed and not yet published, be
\* the runner at work on it or stopped before its end, has no enhanced
\* artifact and is seen as Pending.
C18_EnhancedTablesComplete ==
    /\ \A k \in EnhancedTables :
          /\ primaryKey(k) \in DOMAIN tables
          /\ Len(tables[k].rows) = Len(tables[primaryKey(k)].rows)
    /\ \A j \in 1..Len(enr.todo) :
          /\ enhancedKey(enr.todo[j]) \notin DOMAIN tables
          /\ TableState(enr.todo[j]) = "Pending"

\* The runner was stopped with a table of two rows at hand: the table is
\* seen as Pending.
C18_Witness ==
    /\ enr.pc = "stopped"
    /\ enr.todo # <<>>
    /\ Len(tables[Head(enr.todo)].rows) = 2
    /\ TableState(Head(enr.todo)) = "Pending"
    /\ enrStarts = 1

\* C19: every row of an enhanced table has the itemName and the count of the
\* row of the primary table at its place; it has the category the
\* classification gave, and it has no category and its count when the
\* classification of that row failed, whatever became of the other rows.
C19_RowsKeepNameAndCount ==
    \A k \in EnhancedTables :
        /\ k \in DOMAIN enrLog
        /\ tables[k].header = EnhancedHeader
        /\ Len(enrLog[k]) = Len(tables[k].rows)
        /\ \A j \in 1..Len(tables[k].rows) :
              LET row == tables[k].rows[j]
                  prow == tables[primaryKey(k)].rows[j]
              IN  /\ row[1] = prow[1] /\ row[2] = prow[2]
                  /\ IF enrLog[k][j] = "failed"
                     THEN Len(row) = 2
                     ELSE Len(row) = 3 /\ row[3] = enrLog[k][j] /\ row[3] \in Categories

\* An enhanced table of two rows: the first with its category, the second,
\* whose classification failed, passed through.
C19_Witness ==
    \E k \in EnhancedTables :
        /\ enrLog[k] = <<"sparrow", "failed">>
        /\ tables[k].rows = << <<"a.jpg", 2, "sparrow">>, <<"B.PNG", 0>> >>
        /\ k \in {enr.published[j] : j \in 1..Len(enr.published)}

\* The primary tables that had no enhanced counterpart when the runner
\* started.
LackingAtStart ==
    {k \in DOMAIN enr.atStart :
        k[1] = "primary" /\ <<"enhanced", k[2]>> \notin DOMAIN enr.atStart}

\* C20: when a startup of the runner has run to its end, it has published one
\* enhanced table for each primary table that had none at the startup, and
\* nothing else: a table that was there at the startup is as it was, and with
\* nothing to enrich nothing was published.
C20_EnrichesExactlyUnenriched ==
    enr.pc = "completed" =>
        /\ \A k \in LackingAtStart : enhancedKey(k) \in DOMAIN tables
        /\ {enr.published[j] : j \in 1..Len(enr.published)}
              = {enhancedKey(k) : k \in LackingAtStart}
        /\ Len(enr.published) = Cardinality(LackingAtStart)
        /\ \A k \in DOMAIN enr.atStart : k \in DOMAIN tables /\ tables[k] = enr.atStart[k]
        /\ LackingAtStart = {} => enr.published = <<>>

\* A second startup ran to its end: it enriched the one table that lacked an
\* enhanced counterpart and left the table enriched before alone.
C20_Witness ==
    /\ enr.pc = "completed" /\ enrStarts = 2
    /\ Cardinality(LackingAtStart) = 1
    /\ \E k \in DOMAIN enr.atStart : k[1] = "enhanced"
    /\ Len(enr.published) = 1

\* The sum of the counts of a sequence of rows, and the rows with their
\* counts as numbers of the client.
RECURSIVE SumOfCounts(_)
SumOfCounts(rows) == IF rows = <<>> THEN 0 ELSE Head(rows)[2] + SumOfCounts(Tail(rows))
PairsOf(rows) == [j \in 1..Len(rows) |-> <<rows[j][1], Number(rows[j][2])>>]

\* C21: the text of a table of M rows, read by the parser of the client,
\* gives the M (itemName, count) pairs of the table, M as the number of
\* images and the sum of the counts as the total.
C21_RoundTrip ==
    codec.pc = "parsed" =>
        /\ ~codec.report.skipped
        /\ codec.report.pairs = PairsOf(codec.rows)
        /\ codec.report.fileCount = Len(codec.rows)
        /\ codec.report.totalBirds = Number(SumOfCounts(codec.rows))

\* The same, for the tables with a data row and no comma in an item name.
RoundTripOfPlainNames ==
    (/\ codec.pc = "parsed"
     /\ codec.rows # <<>>
     /\ \A j \in 1..Len(codec.rows) : "," \notin Range(codec.rows[j][1])) =>
        /\ ~codec.report.skipped
        /\ codec.report.pairs = PairsOf(codec.rows)
        /\ codec.report.fileCount = Len(codec.rows)
        /\ codec.report.totalBirds = Number(SumOfCounts(codec.rows))

\* The handleUpload executions that end in a step, by their outcome.
EndingBatches(outcome) ==
    {b \in 1..Len(batches) : batches[b].pc = "awaiting" /\ batches'[b].pc = outcome}

\* C22: the step that ends a handleUpload with success has every upload of
\* that submission done, sets uploadedFiles to their keys, calls onFileUpload
\* (isProcessing is set and the 5 s timer started) and clears the selection;
\* the step that ends it with a failure leaves selectedFiles, uploadedFiles
\* and the state of the parent as they are and empties uploadProgress; the
\* parent is notified by no other step.
C22_NotifyOnlyAfterAllUploaded ==
    [][ /\ \A b \in EndingBatches("done") :
              /\ \A u \in CallsOf(b) : uploadCalls[u].pc = "done"
              /\ uploadedFiles' = KeysOf(b)
              /\ isProcessing' /\ timers' = timers + 1
              /\ selectedFiles' = <<>> /\ uploadProgress' = {}
        /\ \A b \in EndingBatches("failed") :
              /\ selectedFiles' = selectedFiles
              /\ uploadedFiles' = uploadedFiles
              /\ uploadProgress' = {}
              /\ UNCHANGED appVars
        /\ (timers' > timers \/ uploadedFiles' # uploadedFiles)
              => EndingBatches("done") # {}
      ]_vars

\* A submission failed with its selection kept, and the selection was
\* submitted again and uploaded.
C22_Witness ==
    /\ Len(batches) = 2
    /\ batches[1].pc = "failed" /\ batches[2].pc = "done"
    /\ batches[2].files = batches[1].files
    /\ selectedFiles = <<>> /\ uploadedFiles = KeysOf(2) /\ isProcessing

\* The '.csv' objects of the results namespace.
CsvKeys ==
    {k \in DOMAIN store :
        StartsWith(KeyChars(k), ResultsPrefix) /\ EndsWith(KeyChars(k), CsvSuffix)}

\* items are the most recently modified '.csv' objects, RecentLimit of them
\* at most, newest first.
MostRecentCsv(items) ==
    /\ Len(items) = IF Cardinality(CsvKeys) < RecentLimit
                    THEN Cardinality(CsvKeys) ELSE RecentLimit
    /\ \A i \in 1..Len(items) :
          /\ items[i].path \in CsvKeys
          /\ items[i].lastModified = store[items[i].path].lastModified
          /\ \A j \in (i + 1)..Len(items) :
                /\ items[i].path # items[j].path
                /\ items[i].lastModified >= items[j].lastModified
          /\ \A k \in CsvKeys \ PathsOf(items) :
                store[k].lastModified <= items[i].lastModified

\* a is b with some elements left out.
RECURSIVE IsSubsequence(_, _)
IsSubsequence(a, b) ==
    IF a = <<>> THEN TRUE
    ELSE IF b = <<>> THEN FALSE
    ELSE IF Head(a) = Head(b) THEN IsSubsequence(Tail(a), Tail(b))
    ELSE IsSubsequence(a, Tail(b))

KeysOfItems(items) == [i \in 1..Len(items) |-> items[i].path]
HasDataRow(path) == Len(linesOf(BodyChars(store[path].body))) >= 2

\* What a check makes of the first n of its files when nothing fails, and
\* the same without the files of the set failed.
RECURSIVE ResultsWithout(_, _, _)
ResultsWithout(items, n, failed) ==
    IF n = 0 THEN <<>>
    ELSE ResultsWithout(items, n - 1, failed)
         \o (IF n \notin failed /\ HasDataRow(items[n].path)
             THEN <<ProcessingResult(items[n].path,
                                     Tail(linesOf(BodyChars(store[items[n].path].body))))>>
             ELSE <<>>)

\* C23: a check works on the 5 most recently modified '.csv' objects, newest
\* first, and goes through all of them whatever fails; its results, and in
\* the end its report, are those it makes of these files when nothing fails,
\* in the same order, without the files whose download or URL failed, so a
\* report has at most 5 results.
C23_RecentFiveIsolated ==
    [][\A c \in DOMAIN checks :
          checks[c].pc \in {"files", "text", "url"} =>
            /\ MostRecentCsv(checks[c].items)
            /\ checks[c].failed \subseteq 1..(checks[c].idx - 1)
            /\ checks[c].results =
                  ResultsWithout(checks[c].items, checks[c].idx - 1, checks[c].failed)
            /\ checks'[c] # checks[c] =>
                  IF checks'[c].pc = "idle"
                  THEN /\ checks[c].idx = Len(checks[c].items)
                       /\ reportCount' # reportCount
                       /\ reportInfo'.failed \subseteq 1..Len(checks[c].items)
                       /\ reported' = ResultsWithout(checks[c].items, Len(checks[c].items),
                                                     reportInfo'.failed)
                       /\ IsSubsequence(ReportedKeys', KeysOfItems(checks[c].items))
                       /\ Len(reported') <= RecentLimit
                  ELSE /\ checks'[c].items = checks[c].items
                       /\ checks'[c].idx \in {checks[c].idx, checks[c].idx + 1}
                       /\ reported' = reported]_vars

\* Of six '.csv' tables with data rows the check reported four: those of the
\* five most recent but the third, which failed.
C23_Witness ==
    /\ Cardinality(CsvKeys) = 6
    /\ \A k \in CsvKeys : HasDataRow(k)
    /\ Len(reported) = 4 /\ reportInfo.failed = {3}
    /\ LET items == SortNewestFirst(SelectSeq(ListItems(store, ResultsPrefix), isCSV))
       IN  /\ MostRecentCsv(SubSeq(items, 1, RecentLimit))
           /\ ReportedKeys = <<items[1].path, items[2].path, items[4].path, items[5].path>>

\* The steps of a load of the viewer.
LoadStarts(l) == loads[l].pc = "idle" /\ loads'[l].pc = "list"
ListingFails(l) == loads[l].pc = "list" /\ loads'[l].pc = "idle"
LoadSucceeds(l) == loads[l].pc = "urls" /\ loads'[l].pc = "idle"

\* C24 as stated: a failed listing sets the error, leaves csvFiles unchanged
\* and sets loading to false; every load ends with loading false; when a
\* load ends successfully the error is cleared.
C24_ErrorClearedBySuccess ==
    [][\A l \in 1..MaxLoads :
          /\ ListingFails(l) =>
                (error' = LoadError /\ csvFiles' = csvFiles /\ loading' = FALSE)
          /\ LoadSucceeds(l) => (loading' = FALSE /\ error' = NULL)]_vars

\* C24 amended: a failed listing sets the error, leaves csvFiles unchanged
\* and sets loading to false; every load ends with loading false; every load
\* clears the error when it starts and a successful load does not set it, so
\* at its end the error is null unless the listing of an overlapping load
\* failed after this load started.
C24_ErrorClearedAtStart ==
    [][\A l \in 1..MaxLoads :
          /\ LoadStarts(l) => (error' = NULL /\ loading' = TRUE)
          /\ ListingFails(l) =>
                (error' = LoadError /\ csvFiles' = csvFiles /\ loading' = FALSE)
          /\ LoadSucceeds(l) =>
                /\ loading' = FALSE
                /\ error' = error
                /\ (error' = NULL \/ loads[l].errorSet)]_vars

\* A listing failed after tables had been loaded: the error is set, the
\* tables loaded before are still there and no load is in flight.
C24_Witness ==
    /\ error = LoadError /\ ~loading
    /\ csvFresh /\ csvFiles # <<>>
    /\ \A l \in 1..MaxLoads : loads[l].pc = "idle"

\* The checks that have started and not ended.
ChecksInFlight == {c \in DOMAIN checks : checks[c].pc # "idle"}

\* C25: at most one checkForResults execution is in flight: no check starts
\* its listing while another is unfinished, and when a check ends isChecking
\* is false.
C25_OneCheckInFlight ==
    [][\A c \in DOMAIN checks :
          /\ (checks[c].pc = "idle" /\ checks'[c].pc = "list") => ChecksInFlight = {}
          /\ (checks[c].pc # "idle" /\ checks'[c].pc = "idle") => ~isChecking'
          /\ Cardinality(ChecksInFlight') <= 1]_vars

\* The uploads whose poll has not completed: their timer is pending or the
\* poll it started is in flight.
PollsOfUploadsPending ==
    timers + Cardinality({p \in DOMAIN polls : polls[p].pc # "idle" /\ polls[p].scheduled})

\* C26: from handleFileUpload until the poll scheduled by that upload
\* completes isProcessing is true: no other poll sets it to false before.
C26_ProcessingUntilOwnPoll == PollsOfUploadsPending > 0 => isProcessing

\* The submissions whose handleUpload has not settled.
UploadsInFlight == {b \in 1..Len(batches) : batches[b].pc = "awaiting"}

\* C27: while a handleUpload execution is in flight, no second handleUpload
\* starts for the same selection, from its first step on (before any progress
\* event).
C27_NoSecondUpload ==
    [][Len(batches') > Len(batches) =>
          \A b \in UploadsInFlight : batches[b].files # selectedFiles]_vars

\* C28: once every handleUpload execution has settled, uploadProgress is
\* empty: a progress event of an upload that is still in flight after another
\* upload of its submission failed does not make isUploading true again.
C28_ProgressEmptyAfterSettled == UploadsInFlight = {} => uploadProgress = {}

\* The notification rules whose prefix and suffix match a key.
MatchingRules(key) ==
    {rule \in TriggerRules : StartsWith(key, rule[1]) /\ EndsWith(key, rule[2])}

\* C29: exactly one notification rule matches the key of every uploaded
\* file, so that its upload triggers exactly one invocation, whatever the
\* letter case of its extension.
C29_ExactlyOneRule == \A k \in DOMAIN uploads : Cardinality(MatchingRules(k)) = 1

\* C30: the lifecycle script logs its COMPLETED line and ends with status 0
\* only when the processing script ran in this startup and the sub-shell that
\* ran it ended without error.
C30_CompletedOnlyOnSuccess ==
    (Logged(Completed) \/ exitStatus = "0") => (ranScript # 0 /\ subshellExit = 0)

====
